---- MODULE Spec2Model ----
(***************************************************************************)
(* Verification model of the plant-phenotyping pipeline scripts.           *)
(*                                                                         *)
(* Every script of the repository is a sequential program.  The variable   *)
(* prog selects the script a behaviour runs, pc is its position, and the   *)
(* remaining variables are the script's locals and the devices, streams,   *)
(* serial port, file system and Metashape document it works on.            *)
(***************************************************************************)
EXTENDS Integers, Sequences, FiniteSets, TLC

VARIABLES
    prog,       \* the script that runs in this behaviour
    pc,         \* position in the script
    frame_count_setting,  \* camera_control_and_acquisition.py: frames to take
    AcquisitionFrameCount,  \* the device parameter of that name
    allocated,  \* stream -> buffers allocated by configure_stream_buffers
    queued,     \* stream -> GetQueuedBufferCount()
    held,       \* stream -> buffers retrieved from the stream, not queued back
    frame_count,                  \* acquire_images: loop counter
    max_frames,                   \* acquire_images: loop limit
    recieived_frames_for_source,  \* acquire_images: 0 = Source0, 1 = Source1
    iterLog,    \* acquire_images: the RetrieveBuffer calls of each iteration
    devLog,     \* device / stream commands executed so far, in order
    keyPending, \* PvKb: a key press waits to be read
    window,     \* the "RGB Preview" window: "none", "open" or "closed"
    uploadCalls,  \* photogramm_analysis.py: the calls of upload_arduino so far
    program,    \* the robot program loaded last (a sequence of commands)
    progName,   \* which program that is: "ROB_POS", "P_POSES_ONLY", "P_END"
    cmdIdx,     \* index of the command of program the for loop is at
    written,    \* lines written to the serial port while running program
    progDone,   \* the programs whose for loop ran to its end
    qrCaptured, \* step 3 captured the QR image
    folder,     \* step 4: the dataset folder, "None" before and on failure
    img_index,  \* step 6: index of the next multi-view image
    failed,     \* the step that failed, "none" if none did
    donePrinted, \* "[DONE] Photogrammetric analysis successfully ended."
    folder_amount,  \* Photogram3D.py: expected number of subfolders
    image_amount,   \* Photogram3D.py: expected number of images in each
    tree,       \* the monitored folder: entry -> absent, a file, or a
                \* directory with the names it holds
    triggers,   \* calls of trigger_analysis so far
    listing,    \* Plant3D.py: os.listdir(main_folder)
    folderIdx,  \* index of the entry the main loop is at
    doc,        \* the Metashape document: its chunks, in order
    chunkIdx,   \* the chunk of the current folder (index in doc)
    cutIdx,     \* cut_chunk of the current folder, 0 for None
    builtFaces, \* the faces BuildModel gave the current folder's model
    ok,         \* the value cut_cuvette returned last
    metrics,    \* the lines of the metrics file
    saves,      \* calls of doc.save so far
    notified,   \* outcome of the webhook notification, "no" before
    config,     \* Plant3D.py: required key of config.json -> the kind of
                \* value json.load gave it ("absent" if the key is not there)
    missing,    \* the keys the KeyError of the validation lists, <<>> if
                \* it was not raised
    calls,      \* single_capture.py: calls of capture_single_image so far
    index,      \* capture_single_image: the index argument
    devnum,     \* number of cameras update_device_list found
    raw_image,  \* what get_image gave: "None", "incomplete", "ok"
    camLog,     \* the calls made on the camera during this call, in order
    wrote,      \* the files this call wrote
    saved,      \* the files in output_folder
    returned,   \* the outcome of the call: "none" while it runs, "True",
                \* "False", or "raised" when an exception left it
    today,      \* process_qr_image: datetime.now() as yymmdd
    qr_content, \* what decode_qr gave: found or not, and the text
    dirs,       \* the folders made under BASE_FOLDER
    image_path, \* where the QR image is
    qrFolder,   \* the value of create_folder_from_qr, <<>> for None
    qrResult,   \* the outcome of process_qr_image: "running", "None",
                \* "folder" (qrFolder was returned) or "raised"
    serIn,      \* serial port: the lines the robot sent that were not read yet
    robotIn,    \* the commands written to the port the robot has not
                \* carried out yet, by their index in the program
    robotAt,    \* the command the robot carried out last, 0 before
    reads,      \* send_command_wait_for_response: what readline gave in
                \* the running call, or in the last one
    lastResponse, \* the value the last call returned
    callLog     \* the finished calls of send_command_wait_for_response

camVars == <<frame_count_setting, AcquisitionFrameCount, allocated, queued, held, frame_count, max_frames,
             recieived_frames_for_source, iterLog, devLog, keyPending, window>>

orchVars == <<uploadCalls, program, progName, cmdIdx, written, progDone,
              qrCaptured, folder, img_index, failed, donePrinted>>

monVars == <<folder_amount, image_amount, tree, triggers>>

p3dVars == <<listing, folderIdx, doc, chunkIdx, cutIdx, builtFaces, ok,
             metrics, saves, notified>>

cfgVars == <<config, missing>>

capVars == <<calls, index, devnum, raw_image, camLog, wrote, saved, returned>>

qrVars == <<today, qr_content, dirs, image_path, qrFolder, qrResult>>

serVars == <<serIn, robotIn, robotAt, reads, lastResponse, callLog>>

extVars == <<cfgVars, capVars, qrVars, serVars>>

vars == <<prog, pc, camVars, orchVars, monVars, p3dVars, extVars>>

-----------------------------------------------------------------------------
(* Bounds of the model *)

\* largest GetQueuedBufferMaximum() below BUFFER_COUNT that is tried
MaxQueuedBufferMaximum == 2
\* largest frame_count_setting that is tried
MaxFrameCountSetting == 3

\* longest robot program that is tried
MaxProgramLen == 2
\* largest return code of a subprocess that is tried
MaxReturnCode == 2

\* largest folder_amount and image_amount that are tried
MaxFolderAmount == 2
MaxImageAmount == 2

\* longest listing of the source folder that is tried
MaxListing == 2

\* the most required keys a configuration tried lacks
MaxMissing == 2

\* calls of capture_single_image in a run
MaxCaptures == 2

\* longest QR text tried, in words and '_' characters
MaxQrLen == 3

\* readline calls of one send_command_wait_for_response before the timeout
MaxReads == 2

\* lines the serial input buffer holds at most
MaxSerIn == 2

(* Program constants *)
BUFFER_COUNT == 16

Streams == {"source0", "source1"}

Min(a, b) == IF a < b THEN a ELSE b

\* the values GetQueuedBufferMaximum() is drawn from: small ones, and one
\* above BUFFER_COUNT so that the cap of configure_stream_buffers applies
QueuedBufferMaximums == (1..MaxQueuedBufferMaximum) \cup {BUFFER_COUNT + 1}

-----------------------------------------------------------------------------
(* eBUS stream: RetrieveBuffer / QueueBuffer *)

\* The results RetrieveBuffer(timeout) can give on a stream with n queued
\* buffers: "fail" (result not OK, nothing retrieved), "ok" (result OK,
\* operational result OK), "opfail" (result OK, operational result not OK).
RetrieveOutcomes(n) == IF n = 0 THEN {"fail"} ELSE {"fail", "ok", "opfail"}

ResultIsOK(o) == o \in {"ok", "opfail"}
OperationalIsOK(o) == o = "ok"

\* stream.RetrieveBuffer(): a result that IsOK hands one queued buffer over
Retrieve(q, h, s, o) ==
    IF ResultIsOK(o)
    THEN <<[q EXCEPT ![s] = @ - 1], [h EXCEPT ![s] = @ + 1]>>
    ELSE <<q, h>>

\* stream.QueueBuffer(buffer): s is the stream, from the stream the buffer
\* was retrieved from
Queue(q, h, s, from) ==
    <<[q EXCEPT ![s] = @ + 1], [h EXCEPT ![from] = @ - 1]>>

\* configure_stream_buffers: buffer_count = min(BUFFER_COUNT, maximum)
BufferCount(qmax) == Min(BUFFER_COUNT, qmax)

-----------------------------------------------------------------------------
Programs == {"acquire", "preview", "orchestrator", "monitor", "plant3d",
             "capture", "qr", "handshake", "cut"}

\* the names an entry of the monitored folder can have
EntryNames == {"plant_a", "plant_b", "notes"}

\* the names a subfolder can hold, each a stem and an extension
FileNames == {[stem |-> "Img_001", ext |-> ".jpg"],
              [stem |-> "Img_002", ext |-> ".JPEG"],
              [stem |-> "Img_003", ext |-> ".Png"],
              [stem |-> "Img_004", ext |-> ".tif"]}

Absent == [kind |-> "absent", names |-> {}]
PlainFile == [kind |-> "file", names |-> {}]
Directory(names) == [kind |-> "dir", names |-> names]

-----------------------------------------------------------------------------
(* camera_control_and_acquisition.py *)

SourceOf(r) == IF r = 0 THEN "source0" ELSE "source1"
OtherOf(r) == IF r = 0 THEN "source1" ELSE "source0"

\* module main sequence up to the first loop of acquire_images: both streams
\* get their buffers, the frame count is set and read back, acquisition starts
AcqConfigure ==
    /\ prog = "acquire" /\ pc = "start"
    /\ \E m1 \in QueuedBufferMaximums, m2 \in QueuedBufferMaximums,
          fcs \in 1..MaxFrameCountSetting :
        /\ allocated' = [source0 |-> BufferCount(m1), source1 |-> BufferCount(m2)]
        /\ queued' = allocated'
        /\ frame_count_setting' = fcs
        \* acq_frame_count.SetValue(frame_count_setting)
        /\ AcquisitionFrameCount' = fcs
        \* max_frames = acq_frame_count.GetValue()[1]
        /\ max_frames' = AcquisitionFrameCount'
    /\ frame_count' = 0
    /\ recieived_frames_for_source' = 0
    /\ devLog' = devLog \o <<"StreamEnable", "AcquisitionStart:Source0",
                             "StreamEnable", "AcquisitionStart:Source1">>
    /\ pc' = "loop1"
    /\ UNCHANGED <<orchVars, monVars, p3dVars, extVars, prog, held, iterLog, keyPending, window>>

\* the stream the processed buffer of the first loop is queued back to
AltQueueBackStream(r) == SourceOf(r)

\* whether the first loop queues the processed buffer back
AltQueuesBack(o) == ResultIsOK(o)

\* the switch with its branches exchanged
SwitchSensorSwapped(fc) == IF fc % 2 = 0 THEN 0 ELSE 1

\* the value of recieived_frames_for_source after an iteration
SwitchSensor(fc) == IF fc % 2 = 0 THEN 1 ELSE 0

\* one iteration of "while frame_count < max_frames"
AcqAlternatingIter ==
    /\ prog = "acquire" /\ pc = "loop1"
    /\ frame_count < max_frames
    /\ LET main == SourceOf(recieived_frames_for_source)
           trash == OtherOf(recieived_frames_for_source)
       IN \E o \in RetrieveOutcomes(queued[main]),
             ot \in RetrieveOutcomes(queued[trash]),
             kbhit \in {keyPending} :
          LET r1 == Retrieve(queued, held, main, o)
              r2 == Retrieve(r1[1], r1[2], trash, ot)
              \* release the trash buffer
              r3 == IF ResultIsOK(ot)
                    THEN Queue(r2[1], r2[2], trash, trash) ELSE r2
              \* queue the buffer back to the correct stream
              r4 == IF AltQueuesBack(o)
                    THEN Queue(r3[1], r3[2],
                               AltQueueBackStream(recieived_frames_for_source),
                               main)
                    ELSE r3
          IN /\ queued' = r4[1]
             /\ held' = r4[2]
             /\ iterLog' = Append(iterLog, [main |-> main, trash |-> trash,
                                            result |-> o])
             /\ IF kbhit
                THEN /\ keyPending' = FALSE
                     /\ pc' = "loop2_start"
                     /\ UNCHANGED <<frame_count, recieived_frames_for_source>>
                ELSE /\ recieived_frames_for_source' = SwitchSensor(frame_count)
                     /\ frame_count' = frame_count + 1
                     /\ UNCHANGED <<keyPending, pc>>
    /\ UNCHANGED <<orchVars, monVars, p3dVars, extVars, prog, frame_count_setting, AcquisitionFrameCount, allocated, max_frames, devLog,
                   window>>

\* the first loop ran frame_count up to max_frames; the counters are reset
\* and AcquisitionStart is executed again for both sources
AcqAlternatingDone ==
    /\ prog = "acquire"
    /\ \/ pc = "loop1" /\ ~(frame_count < max_frames)
       \/ pc = "loop2_start"
    /\ frame_count' = 0
    /\ max_frames' = frame_count_setting
    /\ devLog' = devLog \o <<"AcquisitionStart:Source0", "AcquisitionStart:Source1">>
    /\ pc' = "loop2"
    /\ UNCHANGED <<orchVars, monVars, p3dVars, extVars, prog, frame_count_setting, AcquisitionFrameCount, allocated, queued, held,
                   recieived_frames_for_source, iterLog, keyPending, window>>

\* whether the RGB+NIR pair loop queues a retrieved buffer back
PairQueuesBack(o) == ResultIsOK(o) /\ OperationalIsOK(o)

\* one iteration of "for i in range(max_frames)"; frame_count stands for i
AcqPairIter ==
    /\ prog = "acquire" /\ pc = "loop2"
    /\ frame_count < max_frames
    /\ \E o_rgb \in RetrieveOutcomes(queued["source0"]),
          o_nir \in RetrieveOutcomes(queued["source1"]) :
          LET r1 == Retrieve(queued, held, "source0", o_rgb)
              r2 == Retrieve(r1[1], r1[2], "source1", o_nir)
              r3 == IF PairQueuesBack(o_rgb)
                    THEN Queue(r2[1], r2[2], "source0", "source0") ELSE r2
              r4 == IF PairQueuesBack(o_nir)
                    THEN Queue(r3[1], r3[2], "source1", "source1") ELSE r3
          IN /\ queued' = r4[1]
             /\ held' = r4[2]
    /\ frame_count' = frame_count + 1
    /\ UNCHANGED <<orchVars, monVars, p3dVars, extVars, prog, pc, frame_count_setting, AcquisitionFrameCount, allocated, max_frames,
                   recieived_frames_for_source, iterLog, devLog, keyPending,
                   window>>

\* AcquisitionStop for both sources, kb.stop(), StreamDisable
AcqStop ==
    /\ prog = "acquire" /\ pc = "loop2"
    /\ ~(frame_count < max_frames)
    /\ devLog' = devLog \o <<"AcquisitionStop:Source0", "AcquisitionStop:Source1",
                             "StreamDisable">>
    /\ pc' = "abort0"
    /\ UNCHANGED <<orchVars, monVars, p3dVars, extVars, prog, frame_count_setting, AcquisitionFrameCount, allocated, queued, held,
                   frame_count, max_frames, recieived_frames_for_source,
                   iterLog, keyPending, window>>

\* sourceN.AbortQueuedBuffers()
AcqAbort ==
    /\ prog = "acquire" /\ pc \in {"abort0", "abort1"}
    /\ devLog' = Append(devLog, IF pc = "abort0" THEN "Abort:source0"
                                                ELSE "Abort:source1")
    /\ pc' = IF pc = "abort0" THEN "drain0" ELSE "drain1"
    /\ UNCHANGED <<orchVars, monVars, p3dVars, extVars, prog, frame_count_setting, AcquisitionFrameCount, allocated, queued, held,
                   frame_count, max_frames, recieived_frames_for_source,
                   iterLog, keyPending, window>>

\* a drain loop that retrieves nothing
DrainedNothing(q, h, s) == <<q, h>>

\* the streams' buffers after "while GetQueuedBufferCount() > 0:
\* RetrieveBuffer()" on stream s: every queued buffer has been retrieved
Drained(q, h, s) ==
    <<[q EXCEPT ![s] = 0], [h EXCEPT ![s] = @ + q[s]]>>

\* while sourceN.GetQueuedBufferCount() > 0: sourceN.RetrieveBuffer()
AcqDrain ==
    /\ prog = "acquire" /\ pc \in {"drain0", "drain1"}
    /\ LET s == IF pc = "drain0" THEN "source0" ELSE "source1"
           d == Drained(queued, held, s)
       IN /\ queued' = d[1]
          /\ held' = d[2]
    /\ devLog' = Append(devLog, IF pc = "drain0" THEN "Drain:source0"
                                                ELSE "Drain:source1")
    /\ pc' = IF pc = "drain0" THEN "abort1" ELSE "close"
    /\ UNCHANGED <<orchVars, monVars, p3dVars, extVars, prog, frame_count_setting, AcquisitionFrameCount, allocated, frame_count,
                   max_frames, recieived_frames_for_source, iterLog,
                   keyPending, window>>

\* module main sequence after acquire_images
AcqClose ==
    /\ prog = "acquire" /\ pc = "close"
    /\ devLog' = devLog \o <<"Close:source0", "Close:source1", "Free:source0",
                             "Free:source1", "Disconnect", "Free:device">>
    /\ pc' = "done"
    /\ UNCHANGED <<orchVars, monVars, p3dVars, extVars, prog, frame_count_setting, AcquisitionFrameCount, allocated, queued, held,
                   frame_count, max_frames, recieived_frames_for_source,
                   iterLog, keyPending, window>>

\* the user presses a key in the terminal while a loop runs
UserPressKey ==
    /\ pc \in {"loop1", "preview_loop", "preview_kbhit"}
    /\ ~keyPending
    /\ keyPending' = TRUE
    /\ UNCHANGED <<orchVars, monVars, p3dVars, extVars, prog, pc, frame_count_setting, AcquisitionFrameCount, allocated, queued, held,
                   frame_count, max_frames, recieived_frames_for_source,
                   iterLog, devLog, window>>

-----------------------------------------------------------------------------
(* MS_preview.py *)

\* main() up to the loop of acquire_preview
PreviewConfigure ==
    /\ prog = "preview" /\ pc = "start"
    /\ \E m \in QueuedBufferMaximums :
        /\ allocated' = [allocated EXCEPT !["source0"] = BufferCount(m)]
        /\ queued' = allocated'
    /\ devLog' = devLog \o <<"StreamEnable", "AcquisitionStart">>
    /\ pc' = "preview_loop"
    /\ UNCHANGED <<orchVars, monVars, p3dVars, extVars, prog, frame_count_setting, AcquisitionFrameCount, held, frame_count, max_frames,
                   recieived_frames_for_source, iterLog, keyPending, window>>

\* the condition under which acquire_preview handles the retrieved buffer
PreviewHandles(o) == ResultIsOK(o) /\ OperationalIsOK(o)

\* one iteration of "while True", up to the key test.  bayer: the frame is
\* BayerRG8.  notVisible: getWindowProperty(WND_PROP_VISIBLE) < 1 after
\* namedWindow and imshow; a window the user closed is either shown again by
\* imshow or reported as not visible, depending on the OpenCV backend.
PreviewIter ==
    /\ prog = "preview" /\ pc = "preview_loop"
    /\ \E o \in RetrieveOutcomes(queued["source0"]), bayer \in BOOLEAN,
          notVisible \in (IF window = "closed" THEN BOOLEAN ELSE {FALSE}) :
          LET r1 == Retrieve(queued, held, "source0", o)
              shown == PreviewHandles(o) /\ bayer
              brk == shown /\ notVisible
              r2 == IF PreviewHandles(o) /\ ~brk
                    THEN Queue(r1[1], r1[2], "source0", "source0") ELSE r1
          IN /\ queued' = r2[1]
             /\ held' = r2[2]
             /\ window' = IF shown /\ ~notVisible THEN "open" ELSE window
             /\ pc' = IF brk THEN "preview_stop" ELSE "preview_kbhit"
    /\ UNCHANGED <<orchVars, monVars, p3dVars, extVars, prog, frame_count_setting, AcquisitionFrameCount, allocated, frame_count,
                   max_frames, recieived_frames_for_source, iterLog, devLog,
                   keyPending>>

\* the end of the iteration: if kb.kbhit(): kb.getch(); break
PreviewKbhit ==
    /\ prog = "preview" /\ pc = "preview_kbhit"
    /\ IF keyPending
       THEN pc' = "preview_stop" /\ keyPending' = FALSE
       ELSE pc' = "preview_loop" /\ UNCHANGED keyPending
    /\ UNCHANGED <<orchVars, monVars, p3dVars, extVars, prog, frame_count_setting, AcquisitionFrameCount, allocated, queued, held,
                   frame_count, max_frames, recieived_frames_for_source,
                   iterLog, devLog, window>>

\* the user closes the preview window
UserCloseWindow ==
    /\ prog = "preview" /\ pc \in {"preview_loop", "preview_kbhit"}
    /\ window = "open"
    /\ window' = "closed"
    /\ UNCHANGED <<orchVars, monVars, p3dVars, extVars, prog, pc, frame_count_setting, AcquisitionFrameCount, allocated, queued, held,
                   frame_count, max_frames, recieived_frames_for_source,
                   iterLog, devLog, keyPending>>

\* AcquisitionStop, StreamDisable, AbortQueuedBuffers
PreviewStop ==
    /\ prog = "preview" /\ pc = "preview_stop"
    /\ devLog' = devLog \o <<"AcquisitionStop", "StreamDisable", "Abort:source0">>
    /\ pc' = "preview_drain"
    /\ UNCHANGED <<orchVars, monVars, p3dVars, extVars, prog, frame_count_setting, AcquisitionFrameCount, allocated, queued, held,
                   frame_count, max_frames, recieived_frames_for_source,
                   iterLog, keyPending, window>>

\* while stream.GetQueuedBufferCount() > 0: stream.RetrieveBuffer(); then
\* destroyAllWindows, kb.stop and the rest of main()
PreviewDrain ==
    /\ prog = "preview" /\ pc = "preview_drain"
    /\ LET d == Drained(queued, held, "source0")
       IN /\ queued' = d[1]
          /\ held' = d[2]
    /\ pc' = "done"
    /\ window' = "none"
    /\ devLog' = devLog \o <<"Drain:source0", "Close:source0", "Free:source0",
                             "Disconnect", "Free:device">>
    /\ UNCHANGED <<orchVars, monVars, p3dVars, extVars, prog, frame_count_setting, AcquisitionFrameCount, allocated, frame_count,
                   max_frames, recieived_frames_for_source, iterLog, keyPending>>

-----------------------------------------------------------------------------
(* photogramm_analysis.py: strings *)

\* A string is modelled as the sequence of its words and of the single
\* blanks between them, so that startswith, replace and strip act on it as
\* they do in Python on strings whose words hold no blank.
StartsWith(s, p) == Len(s) >= Len(p) /\ SubSeq(s, 1, Len(p)) = p

\* str.replace(old, new): all non-overlapping occurrences, left to right
RECURSIVE Replace(_, _, _)
Replace(s, old, new) ==
    IF s = <<>> THEN <<>>
    ELSE IF StartsWith(s, old)
         THEN new \o Replace(SubSeq(s, Len(old) + 1, Len(s)), old, new)
         ELSE <<Head(s)>> \o Replace(Tail(s), old, new)

\* the words of the list in convert_command; each stands for " word "
ConvertParts == <<"X", "Y", "Z", "Rz", "Ry", "Rx", "J7", "J8", "J9", "Sp", "Ac",
                  "Dc", "Rm", "$">>

\* for part in [...]: cmd = cmd.replace(part, part.strip()), from part i on
RECURSIVE ReplaceParts(_, _)
ReplaceParts(cmd, i) ==
    IF i > Len(ConvertParts) THEN cmd
    ELSE ReplaceParts(Replace(cmd, <<" ", ConvertParts[i], " ">>,
                              <<ConvertParts[i]>>), i + 1)

MoveJ == <<"Move", " ", "J", " ", "[*]">>
WaitTime == <<"Wait", " ", "Time">>
TabNumber == <<"Tab", " ", "Number">>

convert_command(command) ==
    IF StartsWith(command, MoveJ)
    THEN ReplaceParts(Replace(command, MoveJ \o <<" ">>, <<"MJ">>), 1)
             \o <<"Lm000000">>
    ELSE command

\* the lines send_command_wait_for_response writes for a command
send_command_writes(command) ==
    IF StartsWith(command, WaitTime) THEN <<>>
    ELSE << convert_command(command) \o <<"\n">> >>

\* the skip test without its second half
SkippedCommandCommentOnly(cmd) == StartsWith(cmd, <<"##">>)

\* cmd.startswith("##") or cmd.startswith("Tab Number"): the loop continues
SkippedCommand(cmd) == StartsWith(cmd, <<"##">>) \/ StartsWith(cmd, TabNumber)

\* the commands robot programs are made of
CmdComment == <<"##", " ", "pose">>
CmdTab == <<"Tab", " ", "Number", " ", "1">>
CmdWait == <<"Wait", " ", "Time", " ", "=", " ", "1">>
CmdMoveA == <<"Move", " ", "J", " ", "[*]", " ", "X", " ", "10", " ", "Y", " ",
              "20", " ", "$", " ", "F">>
CmdMoveB == <<"Move", " ", "J", " ", "[*]", " ", "Z", " ", "30", " ", "Sp", " ",
              "25">>
CmdOut == <<"Out", " ", "On", " ", "=", " ", "5">>

CommandSet == {CmdComment, CmdTab, CmdWait, CmdMoveA, CmdMoveB, CmdOut}

\* what load_program can return
ProgramSet == UNION {[1..n -> CommandSet] : n \in 0..MaxProgramLen}

-----------------------------------------------------------------------------
(* arduino_upload.py *)

ARDUINO_ZERO == "turntable_zero.ino"
ARDUINO_CON == "turntable_continuous.ino"

\* what subprocess.run gives: a return code, or it raises.  A call of
\* upload_arduino is recorded with the return codes of the subprocesses it
\* ran (compile, upload: {} when not run or raised) and its return value.
ReturnCodes == 0..MaxReturnCode

\* run_command with the test "returncode != 1"
run_command_not_one(returncode) == returncode # 1

\* run_command: return result.returncode == 0
run_command(returncode) == returncode = 0

\* the sketch the upload_arduino call at pc is for
SketchAt(p) == IF p \in {"start", "s1_upload"} THEN ARDUINO_ZERO ELSE ARDUINO_CON

\* where the main sequence goes when upload_arduino returned False
AfterUploadFailed == "exit"

\* upload_arduino, first half: the compile subprocess.  When it fails the
\* function returns False; the main sequence then prints an error and exits.
UploadCompile ==
    /\ prog = "orchestrator" /\ pc \in {"start", "s5"}
    /\ \E rc \in ReturnCodes :
         IF run_command(rc)
         THEN /\ uploadCalls' = Append(uploadCalls,
                    [sketch |-> SketchAt(pc), compile |-> {rc}, upload |-> {},
                     ret |-> "running"])
              /\ pc' = IF pc = "start" THEN "s1_upload" ELSE "s5_upload"
              /\ UNCHANGED failed
         ELSE /\ uploadCalls' = Append(uploadCalls,
                    [sketch |-> SketchAt(pc), compile |-> {rc}, upload |-> {},
                     ret |-> "False"])
              /\ failed' = IF pc = "start" THEN "step1" ELSE "step5"
              /\ pc' = AfterUploadFailed
    /\ UNCHANGED <<camVars, monVars, p3dVars, extVars, prog, program, progName, cmdIdx, written, progDone,
                   qrCaptured, folder, img_index, donePrinted>>

\* upload_arduino, second half: the upload subprocess and the return value
UploadUpload ==
    /\ prog = "orchestrator" /\ pc \in {"s1_upload", "s5_upload"}
    /\ \E rc \in ReturnCodes :
         /\ uploadCalls' = [uploadCalls EXCEPT ![Len(uploadCalls)] =
                [@ EXCEPT !.upload = {rc},
                           !.ret = IF run_command(rc) THEN "True" ELSE "False"]]
         /\ IF run_command(rc)
            THEN /\ pc' = IF pc = "s1_upload" THEN "s2_load" ELSE "s6_load"
                 /\ UNCHANGED failed
            ELSE /\ failed' = IF pc = "s1_upload" THEN "step1" ELSE "step5"
                 /\ pc' = AfterUploadFailed
    /\ UNCHANGED <<camVars, monVars, p3dVars, extVars, prog, program, progName, cmdIdx, written, progDone,
                   qrCaptured, folder, img_index, donePrinted>>

\* subprocess.run raises (arduino-cli is missing): nothing catches it
UploadRaises ==
    /\ prog = "orchestrator" /\ pc \in {"start", "s1_upload", "s5", "s5_upload"}
    /\ uploadCalls' =
         IF pc \in {"start", "s5"}
         THEN Append(uploadCalls, [sketch |-> SketchAt(pc), compile |-> {},
                                   upload |-> {}, ret |-> "raised"])
         ELSE [uploadCalls EXCEPT ![Len(uploadCalls)] =
                  [@ EXCEPT !.ret = "raised"]]
    /\ failed' = IF pc \in {"start", "s1_upload"} THEN "step1" ELSE "step5"
    /\ pc' = "exit"
    /\ UNCHANGED <<camVars, monVars, p3dVars, extVars, prog, program, progName, cmdIdx, written, progDone,
                   qrCaptured, folder, img_index, donePrinted>>

-----------------------------------------------------------------------------
(* photogramm_analysis.py: main sequence *)

IMG_AMOUNT == 40

\* the program each loading position loads, and the step it belongs to
ProgramAt(p) == CASE p \in {"s2_load", "s2_cmd"} -> "ROB_POS"
                  [] p \in {"s6_load", "s6_cmd"} -> "P_POSES_ONLY"
                  [] OTHER -> "P_END"
StepAt(p) == CASE p \in {"s2_load", "s2_cmd"} -> "step2"
               [] p \in {"s6_load", "s6_cmd"} -> "step6"
               [] OTHER -> "step7"
CmdPcAt(p) == CASE p = "s2_load" -> "s2_cmd"
                [] p = "s6_load" -> "s6_cmd"
                [] OTHER -> "s7_cmd"

\* the except clauses without their sys.exit(1): the script goes on
AfterExceptionGoOn(step) ==
    CASE step = "step2" -> "s3"
      [] step = "step6" -> "s7_load"
      [] OTHER -> "s8"

\* where the except clause of a step leads: steps 2 and 6 call sys.exit(1),
\* step 7 only prints
AfterException(step) == IF step = "step7" THEN "s8" ELSE "exit"

\* load_program and init_serial at the head of steps 2, 6 and 7
LoadProgram ==
    /\ prog = "orchestrator" /\ pc \in {"s2_load", "s6_load", "s7_load"}
    /\ \/ \E p \in ProgramSet :
            /\ program' = p
            /\ progName' = ProgramAt(pc)
            /\ cmdIdx' = 1
            /\ written' = <<>>
            /\ img_index' = IF pc = "s6_load" THEN 1 ELSE img_index
            /\ pc' = CmdPcAt(pc)
            /\ UNCHANGED failed
       \/ \* pickle.load or serial.Serial raises
          /\ failed' = StepAt(pc)
          /\ pc' = AfterException(StepAt(pc))
          /\ UNCHANGED <<program, progName, cmdIdx, written, img_index>>
    /\ UNCHANGED <<camVars, monVars, p3dVars, extVars, prog, uploadCalls, progDone, qrCaptured, folder,
                   donePrinted>>

\* steps 2 and 7, one turn of "for cmd in robot_program"
RelayCommand ==
    /\ prog = "orchestrator" /\ pc \in {"s2_cmd", "s7_cmd"}
    /\ cmdIdx <= Len(program)
    /\ LET cmd == program[cmdIdx]
       IN IF SkippedCommand(cmd)
          THEN /\ cmdIdx' = cmdIdx + 1
               /\ UNCHANGED <<written, failed, pc>>
          ELSE \/ \* send_command_wait_for_response(ser, cmd)
                  /\ written' = written \o send_command_writes(cmd)
                  /\ cmdIdx' = cmdIdx + 1
                  /\ UNCHANGED <<failed, pc>>
               \/ \* ser.write or ser.readline raises
                  /\ failed' = StepAt(pc)
                  /\ pc' = AfterException(StepAt(pc))
                  /\ UNCHANGED <<written, cmdIdx>>
    /\ UNCHANGED <<camVars, monVars, p3dVars, extVars, prog, uploadCalls, program, progName, progDone,
                   qrCaptured, folder, img_index, donePrinted>>

\* the commands step 6 hands to send_command_wait_for_response
PoseSends(cmd) == StartsWith(cmd, MoveJ) \/ StartsWith(cmd, WaitTime)

\* step 6, one turn of "for cmd in poses_program"; response: whether the
\* robot acknowledged within the timeout
PoseCommand ==
    /\ prog = "orchestrator" /\ pc = "s6_cmd"
    /\ cmdIdx <= Len(program)
    /\ LET cmd == program[cmdIdx]
       IN IF SkippedCommand(cmd) \/ ~PoseSends(cmd)
          THEN /\ cmdIdx' = cmdIdx + 1
               /\ UNCHANGED <<written, failed, pc, img_index>>
          ELSE \/ \E response \in BOOLEAN :
                    /\ written' = written \o send_command_writes(cmd)
                    /\ cmdIdx' = cmdIdx + 1
                    \* for _ in range(IMG_AMOUNT): capture_single_image(...)
                    /\ img_index' = IF StartsWith(cmd, MoveJ) /\ response
                                    THEN img_index + IMG_AMOUNT ELSE img_index
                    /\ UNCHANGED <<failed, pc>>
               \/ \* the serial port or the camera raises
                  /\ failed' = "step6"
                  /\ pc' = AfterException("step6")
                  /\ UNCHANGED <<written, cmdIdx, img_index>>
    /\ UNCHANGED <<camVars, monVars, p3dVars, extVars, prog, uploadCalls, program, progName, progDone,
                   qrCaptured, folder, donePrinted>>

\* the for loop of a step is through
ProgramDone ==
    /\ prog = "orchestrator" /\ pc \in {"s2_cmd", "s6_cmd", "s7_cmd"}
    /\ cmdIdx > Len(program)
    /\ progDone' = progDone \cup {progName}
    /\ pc' = CASE pc = "s2_cmd" -> "s3"
               [] pc = "s6_cmd" -> "s7_load"
               [] OTHER -> "s8"
    /\ UNCHANGED <<camVars, monVars, p3dVars, extVars, prog, uploadCalls, program, progName, cmdIdx,
                   written, qrCaptured, folder, img_index, failed, donePrinted>>

\* step 3: run_camera_qr(TEMP_QR_FOLDER)
CaptureQR ==
    /\ prog = "orchestrator" /\ pc = "s3"
    /\ \E success \in BOOLEAN :
         IF success
         THEN qrCaptured' = TRUE /\ pc' = "s4" /\ UNCHANGED failed
         ELSE failed' = "step3" /\ pc' = "exit" /\ UNCHANGED qrCaptured
    /\ UNCHANGED <<camVars, monVars, p3dVars, extVars, prog, uploadCalls, program, progName, cmdIdx,
                   written, progDone, folder, img_index, donePrinted>>

\* step 4: process_qr_image(qr_image_path)
ProcessQR ==
    /\ prog = "orchestrator" /\ pc = "s4"
    /\ \E f \in {"None", "folder"} :
         IF f # "None"
         THEN folder' = f /\ pc' = "s5" /\ UNCHANGED failed
         ELSE failed' = "step4" /\ pc' = "exit" /\ UNCHANGED folder
    /\ UNCHANGED <<camVars, monVars, p3dVars, extVars, prog, uploadCalls, program, progName, cmdIdx,
                   written, progDone, qrCaptured, img_index, donePrinted>>

\* step 8 and the last line of the script
Finish ==
    /\ prog = "orchestrator" /\ pc = "s8"
    /\ donePrinted' = TRUE
    /\ pc' = "done"
    /\ UNCHANGED <<camVars, monVars, p3dVars, extVars, prog, uploadCalls, program, progName, cmdIdx,
                   written, progDone, qrCaptured, folder, img_index, failed>>

-----------------------------------------------------------------------------
(* Photogram3D.py / Fotogram3D.py *)

\* str.lower() on the extensions that occur
Lower(ext) == CASE ext = ".JPEG" -> ".jpeg"
                [] ext = ".Png" -> ".png"
                [] OTHER -> ext

\* the test without lower()
IsImageNameCaseSensitive(f) == f.ext \in {".jpg", ".jpeg", ".png"}

\* f.lower().endswith(('.jpg', '.jpeg', '.png'))
IsImageName(f) == Lower(f.ext) \in {".jpg", ".jpeg", ".png"}

\* the subfolders of a listing: the entries that are directories
Subfolders(t) == {e \in EntryNames : t[e].kind = "dir"}

\* the test of one subfolder: len(image_files) != image_amount
SubfolderInvalid(names, amount) ==
    Cardinality({f \in names : IsImageName(f)}) # amount

\* one pass of the while loop decides to trigger
PollTriggers(t, folders, images) ==
    /\ Cardinality(Subfolders(t)) = folders
    /\ \A e \in Subfolders(t) : ~SubfolderInvalid(t[e].names, images)

\* the module level: the expected counts are set (from config.json in
\* Fotogram3D.py) and monitor_folder is called
MonitorStart ==
    /\ prog = "monitor" /\ pc = "start"
    /\ \E fa \in 1..MaxFolderAmount, ia \in 0..MaxImageAmount :
         folder_amount' = fa /\ image_amount' = ia
    /\ pc' = "polling"
    /\ UNCHANGED <<camVars, orchVars, p3dVars, extVars, prog, tree, triggers>>

\* one pass of "while True": list, test, and trigger_analysis() and break, or
\* time.sleep(10)
MonitorPoll ==
    /\ prog = "monitor" /\ pc = "polling"
    /\ IF PollTriggers(tree, folder_amount, image_amount)
       THEN triggers' = triggers + 1 /\ pc' = "returned"
       ELSE UNCHANGED <<triggers, pc>>
    /\ UNCHANGED <<camVars, orchVars, p3dVars, extVars, prog, folder_amount, image_amount, tree>>

\* between two polls the acquisition side creates or removes an entry of the
\* monitored folder, or a name in one of its subfolders
FolderChanges ==
    /\ prog = "monitor" /\ pc \in {"polling", "returned"}
    /\ \/ \E e \in EntryNames :
            /\ tree[e].kind = "absent"
            /\ tree' = [tree EXCEPT ![e] = IF e = "notes" THEN PlainFile
                                                        ELSE Directory({})]
       \/ \E e \in EntryNames :
            /\ tree[e].kind = "file" \/ (tree[e].kind = "dir" /\ tree[e].names = {})
            /\ tree' = [tree EXCEPT ![e] = Absent]
       \/ \E e \in EntryNames, f \in FileNames :
            /\ tree[e].kind = "dir"
            /\ tree' = [tree EXCEPT ![e].names =
                            IF f \in @ THEN @ \ {f} ELSE @ \cup {f}]
    /\ UNCHANGED <<camVars, orchVars, p3dVars, extVars, prog, pc, folder_amount, image_amount,
                   triggers>>

-----------------------------------------------------------------------------
(* Plant3D.py: mesh geometry *)

\* config.json: the cuvette cylinder and the lower limit
Config == [CENTER_X |-> 1, CENTER_Y |-> 1, RADIUS |-> 2,
           Z_MIN |-> 0, Z_MAX |-> 3, Z_LIM |-> 1]

\* chunk.transform.matrix, a translation here; T.mulp(local)
Translation == <<1, 0, 0>>
mulp(local) == <<local[1] + Translation[1], local[2] + Translation[2],
                 local[3] + Translation[3]>>

\* model.vertices[vid].coord, in the chunk's local frame
VertexCoord == [v1 |-> <<0, 1, 1>>,   \* on the axis, at Z_LIM
                v2 |-> <<2, 1, 2>>,   \* on the cylinder's surface
                v3 |-> <<0, 2, 3>>,   \* at Z_MAX
                v4 |-> <<0, 1, 0>>,   \* in the cylinder, below Z_LIM
                v5 |-> <<3, 1, 2>>,   \* beyond the radius
                v6 |-> <<0, 1, 4>>]   \* above Z_MAX

\* face.vertices of the faces a model can be built of
FaceVertices == [fa |-> <<"v1", "v2", "v3">>,
                 fb |-> <<"v1", "v2", "v4">>,
                 fc |-> <<"v1", "v3", "v5">>,
                 fd |-> <<"v2", "v3", "v6">>]

FaceIds == DOMAIN FaceVertices

\* the face sets BuildModel is taken to produce
BuiltMeshes == {FaceIds, {"fa"}, {"fb", "fc", "fd"}, {}}

\* the point test of the inner loop of cut_cuvette: inside the cylinder
VertexInsideCyl(vid) ==
    LET geo == mulp(VertexCoord[vid])
        dx == geo[1] - Config.CENTER_X
        dy == geo[2] - Config.CENTER_Y
    IN dx * dx + dy * dy <= Config.RADIUS * Config.RADIUS
       /\ Config.Z_MIN <= geo[3] /\ geo[3] <= Config.Z_MAX

\* if z < z_lim: below_lim = True
VertexBelowLim(vid) == mulp(VertexCoord[vid])[3] < Config.Z_LIM

\* the face test with inside_cyl taken from one vertex only
FaceSelectedAnyVertex(f) ==
    LET inside_cyl == \E i \in 1..3 : VertexInsideCyl(FaceVertices[f][i])
        below_lim == \E i \in 1..3 : VertexBelowLim(FaceVertices[f][i])
    IN inside_cyl /\ ~below_lim

\* the face gets face.selected = True
FaceSelected(f) ==
    LET inside_cyl == \A i \in 1..3 : VertexInsideCyl(FaceVertices[f][i])
        below_lim == \E i \in 1..3 : VertexBelowLim(FaceVertices[f][i])
    IN inside_cyl /\ ~below_lim

-----------------------------------------------------------------------------
(* Plant3D.py: Metashape document *)

\* a model as BuildModel leaves it
NewModel(label, faces) ==
    [label |-> label, faces |-> faces, selected |-> {}, ops |-> <<>>]

NoChunk == 0

\* chunk.model of a chunk: the active model, or none (active = 0)
HasModel(c) == c.active # 0
ActiveModel(c) == c.models[c.active]

\* the labels are sequences of words and blanks, as the robot commands are
EndsWith(s, suffix) == Len(s) >= 1 /\ s[Len(s)] = suffix

\* str.strip(): without the blanks at both ends
RECURSIVE Strip(_)
Strip(s) ==
    IF s = <<>> THEN s
    ELSE IF Head(s) = " " THEN Strip(Tail(s))
    ELSE IF s[Len(s)] = " " THEN Strip(SubSeq(s, 1, Len(s) - 1))
    ELSE s

\* the label duplicate_chunk_for_cut leaves the original chunk with
OrigLabel(base_label) ==
    IF ~EndsWith(base_label, "-orig") /\ ~EndsWith(base_label, "-cut")
    THEN base_label \o <<" ", "-orig">>
    ELSE base_label

\* the label it gives the copy
CutLabel(base_label) ==
    Strip(Replace(Replace(base_label, <<"-orig">>, <<>>), <<"-cut">>, <<>>))
        \o <<" ", "-cut">>

\* duplicate_chunk_for_cut(doc, chunk): the document and the index of the
\* cut chunk, NoChunk when chunk.copy() raised
duplicate_chunk_for_cut(d, idx, raises) ==
    LET base_label == d[idx].label
        renamed == [d EXCEPT ![idx].label = OrigLabel(base_label)]
    IN IF raises
       THEN [doc |-> renamed, cut |-> NoChunk]
       ELSE [doc |-> Append(renamed,
                            [renamed[idx] EXCEPT !.label = CutLabel(base_label)]),
             cut |-> Len(d) + 1]

\* new_model.removeSelection()
removeSelection(m) ==
    [m EXCEPT !.faces = @ \ m.selected, !.selected = {},
              !.ops = Append(@, "removeSelection")]

\* cut_cuvette(chunk): the chunk afterwards and the value returned.  raises:
\* "copy" when chunk.model.copy() raises, "loop" when reading the
\* configuration or the transform raises, "none" otherwise.
cut_cuvette(c, raises) ==
    IF ~HasModel(c) \/ raises = "copy"
    THEN [chunk |-> c, ok |-> FALSE]
    ELSE LET new_model == [ActiveModel(c) EXCEPT !.label = "cut"]
             withCopy == [c EXCEPT !.models = Append(@, new_model),
                                   !.active = Len(c.models) + 1]
             marked == [new_model EXCEPT
                           !.selected = {f \in new_model.faces : FaceSelected(f)}]
         IN IF raises = "loop"
            THEN [chunk |-> withCopy, ok |-> FALSE]
            ELSE [chunk |-> [withCopy EXCEPT !.models[withCopy.active] =
                                               removeSelection(marked)],
                  ok |-> TRUE]

\* an operation of the Metashape API applied to the chunk's active model
ApplyToModel(c, op) ==
    [c EXCEPT !.models[c.active].ops = Append(@, op)]

\* smoothModel, removeComponents and closeHoles, in this order
PostProcess(c) ==
    ApplyToModel(ApplyToModel(ApplyToModel(c, "smoothModel"),
                              "removeComponents"), "closeHoles")

\* the crop applied to the chunk that was duplicated
CropTargetOriginal(origIdx, cutChunkIdx) == origIdx

\* the chunk of the main loop that is cropped: cut_cuvette(cut_chunk)
CropTarget(origIdx, cutChunkIdx) == cutChunkIdx

-----------------------------------------------------------------------------
(* Plant3D.py: load and validate config *)

REQUIRED_KEYS == <<"SOURCE_FOLDER_PATH", "RESULTS_FOLDER_PATH", "PROJECT_NAME",
                   "CENTER_X", "CENTER_Y", "RADIUS", "Z_MIN", "Z_MAX", "Z_LIM">>

RequiredKeySet == {REQUIRED_KEYS[i] : i \in 1..Len(REQUIRED_KEYS)}

\* config.get(k) is modelled by its kind: the key is "absent" (None), the
\* value is "null" (None), "empty" (the empty string), "zero" (the number 0)
\* or another "value"
\* the kinds of the values of the configuration the cut works with
ValidConfig ==
    [k \in RequiredKeySet |->
        IF k \in DOMAIN Config /\ Config[k] = 0 THEN "zero" ELSE "value"]

\* the configurations tried: the valid one with some keys made defective
Configs ==
    {[k \in RequiredKeySet |-> IF k \in DOMAIN d THEN d[k] ELSE ValidConfig[k]] :
        d \in UNION {[S -> {"absent", "null", "empty"}] :
                        S \in {T \in SUBSET RequiredKeySet :
                                  Cardinality(T) <= MaxMissing}}}

\* the test with truthiness in place of the membership test
IsMissingFalsy(kind) == kind \in {"absent", "null", "empty", "zero"}

\* config.get(k) in (None, "")
IsMissing(kind) == kind \in {"absent", "null", "empty"}

\* missing = [k for k in REQUIRED_KEYS if config.get(k) in (None, "")]
MissingKeys(cfg) == SelectSeq(REQUIRED_KEYS, LAMBDA k : IsMissing(cfg[k]))

\* lines 13-61: the validation, and when it passes the globals and
\* doc = Metashape.Document()
P3dValidate ==
    /\ prog = "plant3d" /\ pc = "start"
    /\ missing' = MissingKeys(config)
    /\ pc' = IF missing' # <<>> THEN "key_error" ELSE "p3d_ready"
    /\ UNCHANGED <<camVars, orchVars, monVars, p3dVars, capVars, qrVars, serVars, prog, config>>

-----------------------------------------------------------------------------
(* Plant3D.py: main evaluation loop *)

\* what os.listdir(main_folder) can hold
SourceEntries == {[name |-> <<"plant_a">>, isdir |-> TRUE],
                  [name |-> <<"plant_b", "-cut">>, isdir |-> TRUE],
                  [name |-> <<"notes.txt">>, isdir |-> FALSE]}

Listings ==
    {l \in UNION {[1..n -> SourceEntries] : n \in 0..MaxListing} :
        \A i \in 1..Len(l) : \A j \in 1..Len(l) : i # j => l[i] # l[j]}

\* the header is written if the metrics file does not exist; the loop starts
P3dStart ==
    /\ prog = "plant3d" /\ pc = "p3d_ready"
    /\ \E l \in Listings, exists \in BOOLEAN :
         /\ listing' = l
         /\ metrics' = IF exists THEN <<"old">> ELSE <<"header">>
    /\ folderIdx' = 1
    /\ pc' = "p3d_loop"
    /\ UNCHANGED <<camVars, orchVars, monVars, extVars, prog, doc, chunkIdx, cutIdx,
                   builtFaces, ok, saves, notified>>

\* an entry that is no directory: continue
P3dSkipEntry ==
    /\ prog = "plant3d" /\ pc = "p3d_loop"
    /\ folderIdx <= Len(listing)
    /\ ~listing[folderIdx].isdir
    /\ folderIdx' = folderIdx + 1
    /\ UNCHANGED <<camVars, orchVars, monVars, extVars, prog, pc, listing, doc, chunkIdx,
                   cutIdx, builtFaces, ok, metrics, saves, notified>>

\* addChunk, addPhotos, calibration, alignment, depth maps and BuildModel
\* for a directory: the chunk gets a model with some faces, or none; a
\* Metashape call that raises ends the script
P3dBuild ==
    /\ prog = "plant3d" /\ pc = "p3d_loop"
    /\ folderIdx <= Len(listing)
    /\ listing[folderIdx].isdir
    /\ \/ \E faces \in BuiltMeshes, built \in BOOLEAN :
            /\ built \/ faces = {}
            /\ doc' = Append(doc,
                    [label |-> listing[folderIdx].name,
                     models |-> IF built THEN <<NewModel("", faces)>> ELSE <<>>,
                     active |-> IF built THEN 1 ELSE 0])
            /\ chunkIdx' = Len(doc) + 1
            /\ cutIdx' = NoChunk
            /\ builtFaces' = faces
            /\ pc' = "p3d_dup"
       \/ /\ pc' = "crashed"
          /\ UNCHANGED <<doc, chunkIdx, cutIdx, builtFaces>>
    /\ UNCHANGED <<camVars, orchVars, monVars, extVars, prog, listing, folderIdx, ok,
                   metrics, saves, notified>>

\* cut_chunk = duplicate_chunk_for_cut(doc, chunk, ...)
P3dDuplicate ==
    /\ prog = "plant3d" /\ pc = "p3d_dup"
    /\ \E raises \in BOOLEAN :
         LET r == duplicate_chunk_for_cut(doc, chunkIdx, raises)
         IN /\ doc' = r.doc
            /\ cutIdx' = r.cut
            /\ pc' = IF r.cut # NoChunk /\ HasModel(r.doc[r.cut])
                     THEN "p3d_cut" ELSE "p3d_save"
    /\ UNCHANGED <<camVars, orchVars, monVars, extVars, prog, listing, folderIdx,
                   chunkIdx, builtFaces, ok, metrics, saves, notified>>

\* ok = cut_cuvette(cut_chunk)
P3dCutCuvette ==
    /\ prog = "plant3d" /\ pc = "p3d_cut"
    /\ \E raises \in {"none", "copy", "loop"} :
         LET t == CropTarget(chunkIdx, cutIdx)
             r == cut_cuvette(doc[t], raises)
         IN /\ doc' = [doc EXCEPT ![t] = r.chunk]
            /\ ok' = r.ok
    /\ pc' = "p3d_post"
    /\ UNCHANGED <<camVars, orchVars, monVars, extVars, prog, listing, folderIdx,
                   chunkIdx, cutIdx, builtFaces, metrics, saves, notified>>

\* _fmt without the test for None
fmtPlain(x) == x

\* _fmt(x): "NA" if x is None, else the number with three decimals
\* (numbers are modelled by a letter each)
fmt(x) == IF x = "None" THEN "NA" ELSE x

\* the line appended to the metrics file, as its tab-separated fields
MetricsRow(label, height, area, volume) ==
    <<label, fmt(height), fmt(area), fmt(volume)>>

\* smoothModel, removeComponents, closeHoles on the cut chunk, then the row
\* of the metrics file: label, height, area, volume.  calculate_height_crs
\* gives a number for a chunk with a model; compute_area_volume gives None
\* for a value whose Metashape call raised.  A call that raises outside a
\* try block (smoothModel, removeComponents, closeHoles, the transform in
\* calculate_height_crs) ends the script.
P3dPostProcess ==
    /\ prog = "plant3d" /\ pc = "p3d_post"
    /\ \/ /\ doc' = [doc EXCEPT ![cutIdx] = PostProcess(@)]
          /\ \E area \in {"S", "None"}, volume \in {"V", "None"} :
               metrics' = Append(metrics,
                                 MetricsRow(doc[cutIdx].label, "H", area, volume))
          /\ pc' = "p3d_save"
       \/ /\ pc' = "crashed"
          /\ UNCHANGED <<doc, metrics>>
    /\ UNCHANGED <<camVars, orchVars, monVars, extVars, prog, listing, folderIdx,
                   chunkIdx, cutIdx, builtFaces, ok, saves, notified>>

\* doc.save(output_project_path) and the time log of the folder
P3dSave ==
    /\ prog = "plant3d" /\ pc = "p3d_save"
    /\ saves' = saves + 1
    /\ folderIdx' = folderIdx + 1
    /\ pc' = "p3d_loop"
    /\ UNCHANGED <<camVars, orchVars, monVars, extVars, prog, listing, doc, chunkIdx,
                   cutIdx, builtFaces, ok, metrics, notified>>

\* after the loop: Metashape.app.update() and the final save
P3dFinish ==
    /\ prog = "plant3d" /\ pc = "p3d_loop"
    /\ folderIdx > Len(listing)
    /\ saves' = saves + 1
    /\ pc' = "p3d_notify"
    /\ UNCHANGED <<camVars, orchVars, monVars, extVars, prog, listing, folderIdx, doc,
                   chunkIdx, cutIdx, builtFaces, ok, metrics, notified>>

\* a notification whose exception is not caught
notificationUncaught(posted) == IF posted = "raised" THEN "crashed" ELSE "done"

\* notification(...): where the script is after the call.  posted: "sent"
\* (status 204), "rejected" (another status) or "raised" (requests.post
\* raised, caught by the except clause)
notification(posted) == "done"

\* notification(project_name, ...), the last statement of the script
P3dNotify ==
    /\ prog = "plant3d" /\ pc = "p3d_notify"
    /\ \E posted \in {"sent", "rejected", "raised"} :
         /\ notified' = posted
         /\ pc' = notification(posted)
    /\ UNCHANGED <<camVars, orchVars, monVars, extVars, prog, listing, folderIdx, doc,
                   chunkIdx, cutIdx, builtFaces, ok, metrics, saves>>

-----------------------------------------------------------------------------
(* single_capture.py *)

\* the index arguments tried
CaptureIndexes == {1, 40, 120, 1000}

DigitChars == <<"0", "1", "2", "3", "4", "5", "6", "7", "8", "9">>

\* str(index): the decimal digits
RECURSIVE Decimal(_)
Decimal(i) ==
    IF i < 10 THEN <<DigitChars[i + 1]>>
    ELSE Append(Decimal(i \div 10), DigitChars[(i % 10) + 1])

\* f"{index:03}": padded with zeros on the left to a width of 3
RECURSIVE ZeroPad(_, _)
ZeroPad(digits, width) ==
    IF Len(digits) >= width THEN digits ELSE ZeroPad(<<"0">> \o digits, width)

\* f"Img_{index:03}.jpg"
ImgFileName(i) == <<"Img_">> \o ZeroPad(Decimal(i), 3) \o <<".jpg">>

\* the test of the frame that looks at the object only
FrameUnusableNoStatus(raw) == raw = "None"

\* not raw_image or raw_image.get_status() != 0
FrameUnusable(raw) == raw = "None" \/ raw = "incomplete"

\* the caller (the __main__ block, run_camera_qr or step 6 of
\* photogramm_analysis.py) calls capture_single_image(output_folder, index)
CapCall ==
    /\ prog = "capture" /\ pc = "start"
    /\ calls < MaxCaptures
    /\ calls' = calls + 1
    /\ \E i \in CaptureIndexes : index' = i
    /\ devnum' = 0 /\ raw_image' = "none"
    /\ camLog' = <<>> /\ wrote' = {} /\ returned' = "none"
    /\ pc' = "cap_update"
    /\ UNCHANGED <<camVars, orchVars, monVars, p3dVars, cfgVars, qrVars, serVars, prog, saved>>

\* update_device_list; without a camera return False; else open the device,
\* set the exposure time if writable, stream_on
CapOpen ==
    /\ prog = "capture" /\ pc = "cap_update"
    /\ \E n \in 0..1, writable \in BOOLEAN :
         /\ devnum' = n
         /\ IF n = 0
            THEN returned' = "False" /\ pc' = "start" /\ UNCHANGED camLog
            ELSE /\ camLog' = <<"open_device">>
                        \o (IF writable THEN <<"ExposureTime.set">> ELSE <<>>)
                        \o <<"stream_on">>
                 /\ pc' = "cap_get_image"
                 /\ UNCHANGED returned
    /\ UNCHANGED <<camVars, orchVars, monVars, p3dVars, cfgVars, qrVars, serVars, prog, calls, index,
                   raw_image, wrote, saved>>

\* raw_image = cam.data_stream[0].get_image(timeout=1000) and its test
CapGetImage ==
    /\ prog = "capture" /\ pc = "cap_get_image"
    /\ \E raw \in {"None", "incomplete", "ok"} :
         /\ raw_image' = raw
         /\ IF FrameUnusable(raw)
            THEN /\ camLog' = camLog \o <<"stream_off", "close_device">>
                 /\ returned' = "False"
                 /\ pc' = "start"
            ELSE pc' = "cap_save" /\ UNCHANGED <<camLog, returned>>
    /\ UNCHANGED <<camVars, orchVars, monVars, p3dVars, cfgVars, qrVars, serVars, prog, calls, index,
                   devnum, wrote, saved>>

\* convert, get_numpy_array, Image.fromarray, image.save(filename), then
\* stream_off, close_device and return True; an exception raised by the
\* conversion or by save leaves the function at once
CapSave ==
    /\ prog = "capture" /\ pc = "cap_save"
    /\ \/ /\ wrote' = {ImgFileName(index)}
          /\ saved' = saved \cup {ImgFileName(index)}
          /\ camLog' = camLog \o <<"stream_off", "close_device">>
          /\ returned' = "True"
          /\ pc' = "start"
       \/ /\ returned' = "raised"
          /\ pc' = "cap_raised"
          /\ UNCHANGED <<wrote, saved, camLog>>
    /\ UNCHANGED <<camVars, orchVars, monVars, p3dVars, cfgVars, qrVars, serVars, prog, calls, index,
                   devnum, raw_image>>

CaptureNext ==
    \/ CapCall
    \/ CapOpen
    \/ CapGetImage
    \/ CapSave

-----------------------------------------------------------------------------
(* photogramm_analysis.py: QR code processing *)

\* A QR text is the sequence of its words and '_' characters; a path is the
\* sequence of its words and of the "/" between its components.
QrTexts == UNION {[1..n -> {"plantA", "specB", "_"}] : n \in 0..MaxQrLen}

BASE_FOLDER == <<"Fotogram_source_data">>

\* where step 3 put the QR image
TempQrImage == <<"temp_qr", "/", "Img_001.jpg">>

\* str.split('_'): the parts between the '_' characters, each a sequence of
\* words (empty between two '_' and at the ends)
RECURSIVE Split(_)
Split(s) ==
    IF s = <<>> THEN << <<>> >>
    ELSE IF Head(s) = "_" THEN << <<>> >> \o Split(Tail(s))
    ELSE LET r == Split(Tail(s))
         IN << <<Head(s)>> \o Head(r) >> \o Tail(r)

\* os.path.join(a, b)
PathJoin(a, b) == a \o <<"/">> \o b

\* os.path.basename(path): what follows the last "/"
RECURSIVE Basename(_)
Basename(path) ==
    IF path = <<>> \/ path[Len(path)] = "/" THEN <<>>
    ELSE Append(Basename(SubSeq(path, 1, Len(path) - 1)), path[Len(path)])

\* the folder name with name and spec exchanged
FolderNameSwapped(date, name, spec) == <<date, "_">> \o name \o <<"_">> \o spec

\* f"{datetime.now():%y%m%d}_{spec}_{name}"
FolderName(date, name, spec) == <<date, "_">> \o spec \o <<"_">> \o name

\* new_image_path of save_image_to_folder
NewImagePath(destination_folder) ==
    PathJoin(destination_folder,
             Basename(destination_folder) \o <<"_QR_code.jpg">>)

\* not qr_content: None or the empty string
NoQrContent(c) == ~c.found \/ c.text = <<>>

\* decode_qr(image_path): no code found (None), a text, or an exception of
\* imread, decode or the UTF-8 decoding; then the test of process_qr_image
QrDecode ==
    /\ prog = "qr" /\ pc = "start"
    /\ \E d \in {"250918", "251231"} : today' = d
    /\ \/ /\ \E c \in {[found |-> FALSE, text |-> <<>>]}
                      \cup {[found |-> TRUE, text |-> t] : t \in QrTexts} :
               /\ qr_content' = c
               /\ IF NoQrContent(c)
                  THEN qrResult' = "None" /\ pc' = "qr_returned"
                  ELSE pc' = "qr_create" /\ UNCHANGED qrResult
       \/ /\ qrResult' = "raised" /\ pc' = "qr_raised"
          /\ UNCHANGED qr_content
    /\ UNCHANGED <<camVars, orchVars, monVars, p3dVars, cfgVars, capVars, serVars, prog,
                   dirs, image_path, qrFolder>>

\* folder = create_folder_from_qr(qr_content): the unpacking of the split
\* raises unless there are two parts, os.makedirs may raise; both are caught
\* and give None
QrCreateFolder ==
    /\ prog = "qr" /\ pc = "qr_create"
    /\ LET parts == Split(qr_content.text)
       IN \E makedirsRaises \in BOOLEAN :
            IF Len(parts) # 2 \/ makedirsRaises
            THEN /\ qrFolder' = <<>>
                 /\ qrResult' = "None"
                 /\ pc' = "qr_returned"
                 /\ UNCHANGED dirs
            ELSE LET folder_path ==
                        PathJoin(BASE_FOLDER,
                                 FolderName(today, parts[1], parts[2]))
                 IN /\ dirs' = dirs \cup {folder_path}
                    /\ qrFolder' = folder_path
                    /\ pc' = "qr_move"
                    /\ UNCHANGED qrResult
    /\ UNCHANGED <<camVars, orchVars, monVars, p3dVars, cfgVars, capVars, serVars, prog,
                   today, qr_content, image_path>>

\* save_image_to_folder(image_path, folder) and return folder; an exception
\* of shutil.move leaves process_qr_image
QrMove ==
    /\ prog = "qr" /\ pc = "qr_move"
    /\ \/ /\ image_path' = NewImagePath(qrFolder)
          /\ qrResult' = "folder"
          /\ pc' = "qr_returned"
       \/ /\ qrResult' = "raised" /\ pc' = "qr_raised"
          /\ UNCHANGED image_path
    /\ UNCHANGED <<camVars, orchVars, monVars, p3dVars, cfgVars, capVars, serVars, prog,
                   today, qr_content, dirs, qrFolder>>

QrNext ==
    \/ QrDecode
    \/ QrCreateFolder
    \/ QrMove

-----------------------------------------------------------------------------
(* photogramm_analysis.py: the serial handshake with the robot *)

\* A line of the serial port is the sequence of its characters.  What the
\* robot sends when a command is carried out starts with 'A';
RobotAckLines == {<<"A", "1", "\n">>, <<" ", "A", "2", "\r", "\n">>}

\* other lines it may send
RobotOtherLines == {<<"E", "A", "\n">>, <<"\n">>}

\* str.strip() of a line: without the white space at both ends
RECURSIVE StripLine(_)
StripLine(s) ==
    IF s = <<>> THEN s
    ELSE IF Head(s) \in {" ", "\r", "\n"} THEN StripLine(Tail(s))
    ELSE IF s[Len(s)] \in {" ", "\r", "\n"}
         THEN StripLine(SubSeq(s, 1, Len(s) - 1))
    ELSE s

\* the test that takes every non-empty line
IsAckAnyLine(response) == TRUE

\* response.startswith("A")
IsAck(response) == StartsWith(response, <<"A">>)

\* the robot programs the handshake is followed on
HandshakePrograms ==
    UNION {[1..n -> {CmdWait, CmdMoveA, CmdOut}] : n \in 1..MaxProgramLen}

\* the values send_command_wait_for_response returns: a line, None, or
\* '[Waiting finished]'
Returned(kind, text) == [kind |-> kind, text |-> text]

\* the record of a finished call: the command's index, the writes made, the
\* kind of value returned, the command the returned line answers, and
\* whether the caller captured the images of the pose on it
CallRecord(idx, writes, kind, of, captured) ==
    [idx |-> idx, writes |-> writes, kind |-> kind, of |-> of,
     captured |-> captured]

\* the head of a for loop over a robot program: step 2 (ROB_POS) or step 6
\* (P_POSES_ONLY), with the serial port open
HsLoad ==
    /\ prog = "handshake" /\ pc = "start"
    /\ \E p \in HandshakePrograms, name \in {"ROB_POS", "P_POSES_ONLY"} :
         program' = p /\ progName' = name
    /\ cmdIdx' = 1
    /\ img_index' = 1
    /\ pc' = "hs_cmd"
    /\ UNCHANGED <<camVars, monVars, p3dVars, extVars, prog, uploadCalls, written,
                   progDone, qrCaptured, folder, failed, donePrinted>>

\* one turn of the for loop up to the write of send_command_wait_for_response:
\* a command passed over, a 'Wait Time' command (sleep, no write, no read),
\* or cmd = convert_command(command); ser.write(...)
HsCommand ==
    /\ prog = "handshake" /\ pc = "hs_cmd"
    /\ cmdIdx <= Len(program)
    /\ LET cmd == program[cmdIdx]
       IN IF SkippedCommand(cmd) \/ (progName = "P_POSES_ONLY" /\ ~PoseSends(cmd))
          THEN /\ cmdIdx' = cmdIdx + 1
               /\ UNCHANGED <<written, pc, robotIn, reads, lastResponse, callLog>>
          ELSE IF StartsWith(cmd, WaitTime)
          THEN /\ callLog' = Append(callLog,
                                    CallRecord(cmdIdx, 0, "waited", 0, FALSE))
               /\ lastResponse' = Returned("waited", <<"[Waiting finished]">>)
               /\ reads' = <<>>
               /\ cmdIdx' = cmdIdx + 1
               /\ UNCHANGED <<written, pc, robotIn>>
          ELSE /\ written' = written \o send_command_writes(cmd)
               /\ robotIn' = Append(robotIn, cmdIdx)
               /\ reads' = <<>>
               /\ lastResponse' = Returned("running", <<>>)
               /\ pc' = "hs_read"
               /\ UNCHANGED <<cmdIdx, callLog>>
    /\ UNCHANGED <<camVars, monVars, p3dVars, cfgVars, capVars, qrVars, prog,
                   uploadCalls, program, progName, progDone, qrCaptured, folder,
                   img_index, failed, donePrinted, serIn, robotAt>>

\* one turn of "while time.time() - start < timeout": readline gives the
\* next line of the input buffer, or nothing after its own timeout of 1 s.
\* A line that starts with 'A' is returned; in step 6 the caller then
\* captures IMG_AMOUNT images.
HsReadLine ==
    /\ prog = "handshake" /\ pc = "hs_read"
    /\ Len(reads) < MaxReads
    /\ LET line == IF serIn = <<>> THEN [text |-> <<>>, of |-> 0] ELSE Head(serIn)
           stripped == StripLine(line.text)
           captures == progName = "P_POSES_ONLY"
       IN /\ serIn' = IF serIn = <<>> THEN serIn ELSE Tail(serIn)
          /\ reads' = Append(reads, line.text)
          /\ IF stripped # <<>> /\ IsAck(stripped)
             THEN /\ callLog' = Append(callLog,
                        CallRecord(cmdIdx, 1, "line", line.of, captures))
                  /\ lastResponse' = Returned("line", stripped)
                  /\ img_index' = IF captures THEN img_index + IMG_AMOUNT
                                  ELSE img_index
                  /\ cmdIdx' = cmdIdx + 1
                  /\ pc' = "hs_cmd"
             ELSE UNCHANGED <<callLog, lastResponse, img_index, cmdIdx, pc>>
    /\ UNCHANGED <<camVars, monVars, p3dVars, cfgVars, capVars, qrVars, prog,
                   uploadCalls, program, progName, written, progDone, qrCaptured,
                   folder, failed, donePrinted, robotIn, robotAt>>

\* the timeout elapsed: "[No lastResponse within timeout]", return None; the
\* for loop goes on with the next command
HsTimeout ==
    /\ prog = "handshake" /\ pc = "hs_read"
    /\ Len(reads) >= 1
    /\ callLog' = Append(callLog, CallRecord(cmdIdx, 1, "None", 0, FALSE))
    /\ lastResponse' = Returned("None", <<>>)
    /\ cmdIdx' = cmdIdx + 1
    /\ pc' = "hs_cmd"
    /\ UNCHANGED <<camVars, monVars, p3dVars, cfgVars, capVars, qrVars, prog,
                   uploadCalls, program, progName, written, progDone, qrCaptured,
                   folder, img_index, failed, donePrinted, serIn, robotIn, robotAt,
                   reads>>

\* the for loop is through
HsDone ==
    /\ prog = "handshake" /\ pc = "hs_cmd"
    /\ cmdIdx > Len(program)
    /\ pc' = "done"
    /\ UNCHANGED <<camVars, orchVars, monVars, p3dVars, extVars, prog>>

\* the robot has carried out the oldest command it was sent and says so
RobotReply ==
    /\ prog = "handshake" /\ pc \in {"hs_cmd", "hs_read"}
    /\ robotIn # <<>>
    /\ Len(serIn) < MaxSerIn
    /\ \E text \in RobotAckLines :
         serIn' = Append(serIn, [text |-> text, of |-> Head(robotIn)])
    /\ robotAt' = Head(robotIn)
    /\ robotIn' = Tail(robotIn)
    /\ UNCHANGED <<camVars, orchVars, monVars, p3dVars, cfgVars, capVars, qrVars,
                   prog, pc, reads, lastResponse, callLog>>

\* the robot sends a line that is no acknowledgement
RobotChatter ==
    /\ prog = "handshake" /\ pc \in {"hs_cmd", "hs_read"}
    /\ Len(serIn) < MaxSerIn
    /\ \E text \in RobotOtherLines :
         serIn' = Append(serIn, [text |-> text, of |-> 0])
    /\ UNCHANGED <<camVars, orchVars, monVars, p3dVars, cfgVars, capVars, qrVars,
                   prog, pc, robotIn, robotAt, reads, lastResponse, callLog>>

HandshakeNext ==
    \/ HsLoad
    \/ HsCommand
    \/ HsReadLine
    \/ HsTimeout
    \/ HsDone
    \/ RobotReply
    \/ RobotChatter

-----------------------------------------------------------------------------
(* Plant3D.py: cut_cuvette on its own *)

\* a chunk as cut_cuvette may be handed it: without a model, or with a model
\* of some faces, some of them selected
CutLoad ==
    /\ prog = "cut" /\ pc = "start"
    /\ \E faces \in SUBSET FaceIds, built \in BOOLEAN :
         \E sel \in SUBSET faces :
            /\ built \/ faces = {}
            /\ doc' = <<[label |-> <<"plant", " ", "-cut">>,
                         models |-> IF built
                                    THEN <<[NewModel("", faces) EXCEPT !.selected = sel]>>
                                    ELSE <<>>,
                         active |-> IF built THEN 1 ELSE 0]>>
    /\ pc' = "cut_call"
    /\ UNCHANGED <<camVars, orchVars, monVars, extVars, prog, listing, folderIdx,
                   chunkIdx, cutIdx, builtFaces, ok, metrics, saves, notified>>

\* ok = cut_cuvette(chunk)
CutCall ==
    /\ prog = "cut" /\ pc = "cut_call"
    /\ \E raises \in {"none", "copy", "loop"} :
         LET r == cut_cuvette(doc[1], raises)
         IN /\ doc' = <<r.chunk>>
            /\ ok' = r.ok
    /\ pc' = "cut_done"
    /\ UNCHANGED <<camVars, orchVars, monVars, extVars, prog, listing, folderIdx,
                   chunkIdx, cutIdx, builtFaces, metrics, saves, notified>>

CutNext ==
    \/ CutLoad
    \/ CutCall

-----------------------------------------------------------------------------
Init ==
    /\ prog \in Programs
    /\ pc = "start"
    /\ frame_count_setting = 0
    /\ AcquisitionFrameCount = 0
    /\ allocated = [s \in Streams |-> 0]
    /\ queued = [s \in Streams |-> 0]
    /\ held = [s \in Streams |-> 0]
    /\ frame_count = 0
    /\ max_frames = 0
    /\ recieived_frames_for_source = 0
    /\ iterLog = <<>>
    /\ devLog = <<>>
    /\ keyPending = FALSE
    /\ window = "none"
    /\ uploadCalls = <<>>
    /\ program = <<>>
    /\ progName = "none"
    /\ cmdIdx = 0
    /\ written = <<>>
    /\ progDone = {}
    /\ qrCaptured = FALSE
    /\ folder = "None"
    /\ img_index = 0
    /\ failed = "none"
    /\ donePrinted = FALSE
    /\ folder_amount = 0
    /\ image_amount = 0
    /\ tree = [e \in EntryNames |-> Absent]
    /\ triggers = 0
    /\ listing = <<>>
    /\ folderIdx = 0
    /\ doc = <<>>
    /\ chunkIdx = 0
    /\ cutIdx = 0
    /\ builtFaces = {}
    /\ ok = FALSE
    /\ metrics = <<>>
    /\ saves = 0
    /\ notified = "no"
    /\ config \in (IF prog = "plant3d" THEN Configs ELSE {ValidConfig})
    /\ missing = <<>>
    /\ serIn = <<>>
    /\ robotIn = <<>>
    /\ robotAt = 0
    /\ reads = <<>>
    /\ lastResponse = Returned("running", <<>>)
    /\ callLog = <<>>
    /\ today = "none"
    /\ qr_content = [found |-> FALSE, text |-> <<>>]
    /\ dirs = {}
    /\ image_path = TempQrImage
    /\ qrFolder = <<>>
    /\ qrResult = "running"
    /\ calls = 0
    /\ index = 0
    /\ devnum = 0
    /\ raw_image = "none"
    /\ camLog = <<>>
    /\ wrote = {}
    /\ saved = {}
    /\ returned = "none"

AcquireNext ==
    \/ AcqConfigure
    \/ AcqAlternatingIter
    \/ AcqAlternatingDone
    \/ AcqPairIter
    \/ AcqStop
    \/ AcqAbort
    \/ AcqDrain
    \/ AcqClose

PreviewProgram ==
    \/ PreviewConfigure
    \/ PreviewIter
    \/ PreviewKbhit
    \/ PreviewStop
    \/ PreviewDrain

OrchestratorNext ==
    \/ UploadCompile
    \/ UploadUpload
    \/ UploadRaises
    \/ LoadProgram
    \/ RelayCommand
    \/ PoseCommand
    \/ ProgramDone
    \/ CaptureQR
    \/ ProcessQR
    \/ Finish

MonitorNext ==
    \/ MonitorStart
    \/ MonitorPoll
    \/ FolderChanges

Plant3DNext ==
    \/ P3dValidate
    \/ P3dStart
    \/ P3dSkipEntry
    \/ P3dBuild
    \/ P3dDuplicate
    \/ P3dCutCuvette
    \/ P3dPostProcess
    \/ P3dSave
    \/ P3dFinish
    \/ P3dNotify

Next ==
    \/ AcquireNext
    \/ PreviewProgram
    \/ OrchestratorNext
    \/ MonitorNext
    \/ Plant3DNext
    \/ CaptureNext
    \/ QrNext
    \/ HandshakeNext
    \/ CutNext
    \/ UserPressKey
    \/ UserCloseWindow

Spec == Init /\ [][Next]_vars

\* the scripts one by one
AcquireInit == Init /\ prog = "acquire"
AcquireSteps == AcquireNext \/ UserPressKey
AcquireSpec == AcquireInit /\ [][AcquireSteps]_vars

OrchestratorInit == Init /\ prog = "orchestrator"
OrchestratorSpec == OrchestratorInit /\ [][OrchestratorNext]_vars

MonitorInit == Init /\ prog = "monitor"
MonitorSpec == MonitorInit /\ [][MonitorNext]_vars

Plant3DInit == Init /\ prog = "plant3d"
Plant3DSpec == Plant3DInit /\ [][Plant3DNext]_vars

CaptureInit == Init /\ prog = "capture"
CaptureSpec == CaptureInit /\ [][CaptureNext]_vars

QrInit == Init /\ prog = "qr"
QrSpec == QrInit /\ [][QrNext]_vars

HandshakeInit == Init /\ prog = "handshake"
HandshakeSpec == HandshakeInit /\ [][HandshakeNext]_vars

CutInit == Init /\ prog = "cut"
CutSpec == CutInit /\ [][CutNext]_vars

\* MS_preview.py alone.  The script's process keeps running (an iteration of
\* its loop takes at most the RetrieveBuffer timeout); the user need not act.
PreviewInit == Init /\ prog = "preview"

PreviewNext ==
    \/ PreviewProgram
    \/ UserPressKey
    \/ UserCloseWindow

PreviewLive == PreviewInit /\ [][PreviewNext]_vars /\ WF_vars(PreviewProgram)

-----------------------------------------------------------------------------
(* Claims *)

InAcquisitionLoop == pc \in {"loop1", "loop2", "preview_loop"}

\* C1: at the start of every iteration of an acquisition loop (the
\* alternating loop, the RGB+NIR pair loop, the preview loop) every buffer
\* retrieved from a stream has been queued back to it: the application holds
\* none, and each stream has as many queued buffers as
\* configure_stream_buffers allocated.
C1_RetrieveThenQueueBack ==
    InAcquisitionLoop =>
        \A s \in Streams : held[s] = 0 /\ queued[s] = allocated[s]

Odd(i) == i % 2 = 1

\* C9: in the first loop of acquire_images the processed stream alternates
\* Source0, Source1, Source0, ... starting with Source0, whatever the
\* retrieval gave; each iteration also retrieves from the other stream; the
\* sensor for the next iteration has been switched once per completed
\* iteration; there are at most AcquisitionFrameCount iterations.
C9_AlternatingRetrieval ==
    prog = "acquire" =>
        /\ \A i \in 1..Len(iterLog) :
              /\ iterLog[i].main = (IF Odd(i) THEN "source0" ELSE "source1")
              /\ iterLog[i].trash = (IF Odd(i) THEN "source1" ELSE "source0")
        /\ Len(iterLog) <= AcquisitionFrameCount
        /\ pc = "loop1" =>
              /\ frame_count = Len(iterLog)
              /\ recieived_frames_for_source = frame_count % 2

\* C9 witness: three iterations ran, the second one's retrieval failed, and
\* the third one processed Source0 again
C9_Witness ==
    /\ Len(iterLog) = 3
    /\ iterLog[2].result = "fail"
    /\ iterLog[1].result = "opfail"
    /\ iterLog[3].main = "source0"

PreviewShutDown ==
    /\ pc = "done"
    /\ queued["source0"] = 0
    /\ \E i \in 1..Len(devLog) : \E j \in 1..Len(devLog) : \E k \in 1..Len(devLog) :
          /\ i < j /\ j < k
          /\ devLog[i] = "AcquisitionStop"
          /\ devLog[j] = "StreamDisable"
          /\ devLog[k] = "Abort:source0"

\* C10: once a key press is pending or the preview window has been closed
\* while acquire_preview loops, the loop terminates and the shutdown
\* (AcquisitionStop, StreamDisable, abort and drain) is carried out.
C10_ExitEndsPreview ==
    (prog = "preview" /\ pc \in {"preview_loop", "preview_kbhit"}
        /\ (keyPending \/ window = "closed"))
        ~> PreviewShutDown

\* C2: once a step of the main sequence of photogramm_analysis.py has
\* failed, the process has exited: no later step runs and the final
\* "[DONE] ... successfully ended" line is not printed.
C2_ErrorsExit ==
    (prog = "orchestrator" /\ failed # "none") => (pc = "exit" /\ ~donePrinted)

\* the commands of the loaded program the for loop has dealt with
Processed == SubSeq(program, 1, cmdIdx - 1)

\* the line a relayed command is written as
RelayedLine(cmd) ==
    (IF StartsWith(cmd, MoveJ) THEN convert_command(cmd) ELSE cmd) \o <<"\n">>

\* the lines a relay of cmds writes; movesOnly: only 'Move J [*]' commands
\* are relayed
RECURSIVE RelayLines(_, _)
RelayLines(cmds, movesOnly) ==
    IF cmds = <<>> THEN <<>>
    ELSE LET c == Head(cmds)
             relayed == /\ ~StartsWith(c, <<"##">>)
                        /\ ~StartsWith(c, <<"Tab", " ", "Number">>)
                        /\ ~StartsWith(c, <<"Wait", " ", "Time">>)
                        /\ movesOnly => StartsWith(c, <<"Move", " ", "J", " ", "[*]">>)
         IN (IF relayed THEN <<RelayedLine(c)>> ELSE <<>>)
                \o RelayLines(Tail(cmds), movesOnly)

\* C5 as stated: for each of the three robot programs the lines written to
\* the serial port are, in program order, convert_command(cmd) + newline for
\* every command that is no '##' comment, 'Tab Number' line or 'Wait Time'
\* command, and commands not starting with 'Move J [*]' go out verbatim.
C5_RelayEveryCommand ==
    progName # "none" => written = RelayLines(Processed, FALSE)

\* C5 amended: that holds for ROB_POS and P_END; of P_POSES_ONLY only the
\* commands starting with 'Move J [*]' are written, every other command is
\* passed over without a write.
C5_Relay ==
    progName # "none" =>
        written = RelayLines(Processed, progName = "P_POSES_ONLY")

\* C5 witness: the pose program <<Out On = 5, Move J [*] ...>> ran to its
\* end and only the converted move was written
C5_Witness ==
    /\ "P_POSES_ONLY" \in progDone /\ progName = "P_POSES_ONLY"
    /\ program = <<CmdOut, CmdMoveA>>
    /\ written = << <<"MJ", "X", " ", "10", "Y", "20", "$", "F", "Lm000000", "\n">> >>

\* C6: in every call of upload_arduino the upload subprocess ran only after
\* the compile subprocess returned 0; the call returned True exactly when
\* both returned 0; after a failed compile it returned False and ran no
\* upload.
C6_CompileThenUpload ==
    \A i \in 1..Len(uploadCalls) :
        LET c == uploadCalls[i]
        IN /\ c.upload # {} => c.compile = {0}
           /\ c.ret = "True" <=> (c.compile = {0} /\ c.upload = {0})
           /\ (c.compile # {} /\ c.compile # {0}) =>
                  (c.ret = "False" /\ c.upload = {})

\* C6 witness: one call returned True, the next failed to compile
C6_Witness ==
    /\ Len(uploadCalls) = 2
    /\ uploadCalls[1].ret = "True" /\ uploadCalls[1].upload = {0}
    /\ uploadCalls[2].compile = {1} /\ uploadCalls[2].ret = "False"

UploadSucceeded(sketch) ==
    \E i \in 1..Len(uploadCalls) :
        uploadCalls[i].sketch = sketch /\ uploadCalls[i].ret = "True"

UploadCalled(sketch) ==
    \E i \in 1..Len(uploadCalls) : uploadCalls[i].sketch = sketch

\* C7: a line is written to the serial port only after the zero-position
\* upload succeeded; the QR image is captured only after ROB_POS ran; the
\* continuous-rotation upload is called only after the QR folder was
\* created; multi-view images are captured only after that upload
\* succeeded; P_END is run only after the pose program ran to its end.
C7_StepOrder ==
    prog = "orchestrator" =>
        /\ (progName # "none" \/ written # <<>>) => UploadSucceeded(ARDUINO_ZERO)
        /\ qrCaptured => "ROB_POS" \in progDone
        /\ UploadCalled(ARDUINO_CON) => folder # "None"
        /\ img_index > 1 => UploadSucceeded(ARDUINO_CON)
        /\ progName = "P_END" => "P_POSES_ONLY" \in progDone

\* C7 witness: a whole run, with lines written for P_END and images taken
C7_Witness ==
    /\ pc = "done" /\ failed = "none"
    /\ progName = "P_END" /\ written # <<>>
    /\ img_index > IMG_AMOUNT

\* the names that count as images: extension jpg, jpeg or png in any case
ImageNames == {f \in FileNames : f.ext \in {".jpg", ".JPEG", ".Png"}}

\* the monitored folder holds exactly folder_amount subdirectories, each
\* with exactly image_amount image names
StructureComplete ==
    /\ Cardinality({e \in EntryNames : tree[e].kind = "dir"}) = folder_amount
    /\ \A e \in EntryNames :
          tree[e].kind = "dir" =>
              Cardinality(tree[e].names \cap ImageNames) = image_amount

\* C3: monitor_folder calls trigger_analysis at most once, and only in a
\* poll that finds exactly folder_amount subdirectories with exactly
\* image_amount image names each; it returns with the trigger and does not
\* poll or trigger again afterwards.
C3_TriggerOnce ==
    [][/\ triggers' # triggers =>
            /\ triggers = 0 /\ triggers' = 1
            /\ StructureComplete
            /\ pc = "polling" /\ pc' = "returned"
       /\ pc = "returned" => (pc' = "returned" /\ triggers' = triggers)]_vars

\* C3 witness: triggered on two subfolders with two images each, upper-case
\* extensions among them, beside a plain file and a non-image name
C3_Witness ==
    /\ pc = "returned" /\ triggers = 1
    /\ folder_amount = 2 /\ image_amount = 2
    /\ tree["notes"].kind = "file"
    /\ tree["plant_a"].names = {[stem |-> "Img_002", ext |-> ".JPEG"],
                                [stem |-> "Img_003", ext |-> ".Png"],
                                [stem |-> "Img_004", ext |-> ".tif"]}
    /\ tree["plant_b"].kind = "dir"

\* the vertices in the chunk's coordinate system
GeoCoord == [v1 |-> <<1, 1, 1>>, v2 |-> <<3, 1, 2>>, v3 |-> <<1, 2, 3>>,
             v4 |-> <<1, 1, 0>>, v5 |-> <<4, 1, 2>>, v6 |-> <<1, 1, 4>>]

\* the point lies in the cylinder and its Z range, and not below Z_LIM
PointKept(p) ==
    /\ (p[1] - Config.CENTER_X) * (p[1] - Config.CENTER_X)
         + (p[2] - Config.CENTER_Y) * (p[2] - Config.CENTER_Y)
           <= Config.RADIUS * Config.RADIUS
    /\ Config.Z_MIN <= p[3] /\ p[3] <= Config.Z_MAX
    /\ p[3] >= Config.Z_LIM

FaceEntirelyInside(f) ==
    \A i \in 1..3 : PointKept(GeoCoord[FaceVertices[f][i]])

\* C4: after a successful cut_cuvette every face left in the 'cut' model has
\* all its vertices inside the cylinder and its Z range and none below
\* Z_LIM, and every face that was entirely inside and not below Z_LIM is
\* still there.
C4_CutKeepsCylinder ==
    (prog = "plant3d" /\ pc = "p3d_post" /\ ok) =>
        LET m == ActiveModel(doc[cutIdx])
        IN /\ \A f \in m.faces : FaceEntirelyInside(f)
           /\ \A f \in builtFaces : FaceEntirelyInside(f) => f \in m.faces

AfterDuplicate == prog = "plant3d" /\ pc \in {"p3d_cut", "p3d_post", "p3d_save"}

\* the original chunk still has the model BuildModel gave it, with the same
\* faces, and no operation was applied to it
OriginalUntouched ==
    LET orig == doc[chunkIdx]
    IN IF HasModel(orig)
       THEN /\ Len(orig.models) = 1
            /\ orig.models[1].faces = builtFaces
            /\ orig.models[1].ops = <<>>
            /\ orig.models[1].selected = {}
       ELSE orig.models = <<>>

\* the cut chunk is another chunk, labelled with the '-cut' suffix; a
\* successful cut_cuvette worked on a copy of its active model
CutIsCopy ==
    cutIdx # NoChunk =>
        /\ cutIdx # chunkIdx
        /\ EndsWith(doc[cutIdx].label, "-cut")
        /\ (pc = "p3d_post" /\ ok) =>
              /\ Len(doc[cutIdx].models) = 2
              /\ doc[cutIdx].models[1].faces = builtFaces
              /\ doc[cutIdx].models[1].ops = <<>>
              /\ doc[cutIdx].active = 2
              /\ doc[cutIdx].models[2].label = "cut"

DefectiveKeys == {k \in RequiredKeySet : config[k] \in {"absent", "null", "empty"}}

\* C11: when a required key is absent, null or the empty string, the
\* validation of Plant3D.py raises KeyError listing exactly those keys, with
\* no document or chunk created, no save and no output file written; when
\* none is, the validation raises nothing and the script goes on.
C11_ConfigValidation ==
    prog = "plant3d" /\ pc # "start" =>
        /\ (DefectiveKeys # {}) <=> (pc = "key_error")
        /\ {missing[i] : i \in 1..Len(missing)} = DefectiveKeys
        /\ Len(missing) = Cardinality(DefectiveKeys)
        /\ pc = "key_error" =>
              doc = <<>> /\ metrics = <<>> /\ saves = 0 /\ notified = "no"

\* C11 witness: PROJECT_NAME is null and Z_LIM is absent, Z_MIN is 0; the
\* KeyError lists the two
C11_Witness ==
    /\ prog = "plant3d" /\ pc = "key_error"
    /\ config["PROJECT_NAME"] = "null" /\ config["Z_LIM"] = "absent"
    /\ config["Z_MIN"] = "zero"
    /\ missing = <<"PROJECT_NAME", "Z_LIM">>

\* the cut chunk of a source directory, where the document has one with a
\* model: its label is the directory's name with the '-cut' suffix
CutChunkLabel(name) ==
    IF EndsWith(name, "-cut") \/ EndsWith(name, "-orig")
    THEN SubSeq(name, 1, Len(name) - 1) \o <<" ", "-cut">>
    ELSE name \o <<" ", "-cut">>

HasCutModel(name) ==
    \E c \in 1..Len(doc) :
        doc[c].label = CutChunkLabel(name) /\ doc[c].active # 0

\* the cut chunk labels of the first n entries of the listing, in order
RECURSIVE RowLabels(_)
RowLabels(n) ==
    IF n = 0 THEN <<>>
    ELSE IF listing[n].isdir /\ HasCutModel(listing[n].name)
         THEN Append(RowLabels(n - 1), CutChunkLabel(listing[n].name))
         ELSE RowLabels(n - 1)

\* a data row: label, height, area, volume, 'NA' for a value that is None
IsDataRow(r) ==
    /\ Len(r) = 4
    /\ r[2] \in {"H", "NA"} /\ r[3] \in {"S", "NA"} /\ r[4] \in {"V", "NA"}

MetricsFileOk ==
    (prog = "plant3d" /\ metrics # <<>>) =>
        /\ metrics[1] \in {"old", "header"}
        /\ \A i \in 2..Len(metrics) : IsDataRow(metrics[i])
        /\ pc = "done" =>
              /\ Len(metrics) = 1 + Len(RowLabels(Len(listing)))
              /\ \A i \in 2..Len(metrics) :
                    metrics[i][1] = RowLabels(Len(listing))[i - 1]

\* C12: the metrics file starts with the header, written once when the
\* file did not exist ("old" stands for the content of a file that did),
\* and no step rewrites a line of it; the other lines are rows of four
\* fields with 'NA' for None; after the batch there is one row for every
\* source directory whose cut chunk was created and has a model, in listing
\* order.
C12_MetricsFile ==
    /\ []MetricsFileOk
    /\ [][metrics # <<>> =>
            /\ Len(metrics') >= Len(metrics)
            /\ SubSeq(metrics', 1, Len(metrics)) = metrics]_vars

\* C12 witness: a new file, two directories; the first has no model and no
\* row, the second has a row with an 'NA'
C12_Witness ==
    /\ prog = "plant3d" /\ pc = "done"
    /\ Len(listing) = 2 /\ listing[1].isdir /\ listing[2].isdir
    /\ ~HasCutModel(listing[1].name)
    /\ Len(metrics) = 2 /\ metrics[1] = "header"
    /\ metrics[2][1] = CutChunkLabel(listing[2].name)
    /\ metrics[2][3] = "NA" /\ metrics[2][4] = "V"

\* the name the claim gives the saved frame: Img_, the index in decimal
\* with zeros in front up to three digits, .jpg
SavedAs(i) ==
    LET d(n) == DigitChars[n + 1]
    IN <<"Img_">> \o
       (IF i < 10 THEN <<"0", "0", d(i)>>
        ELSE IF i < 100 THEN <<"0", d(i \div 10), d(i % 10)>>
        ELSE IF i < 1000 THEN <<d(i \div 100), d((i \div 10) % 10), d(i % 10)>>
        ELSE <<d(i \div 1000), d((i \div 100) % 10), d((i \div 10) % 10),
               d(i % 10)>>)
       \o <<".jpg">>

DeviceOpened == \E k \in 1..Len(camLog) : camLog[k] = "open_device"

\* C13: capture_single_image returns True only with the frame saved as
\* Img_<index>.jpg; without a camera it returns False and opens no device;
\* with a missing or incomplete frame it returns False and writes no file;
\* when it returns with the device opened, stream_off and close_device were
\* the last calls on the camera.
C13_CaptureSingleImage ==
    prog = "capture" =>
        /\ returned = "True" =>
              /\ wrote = {SavedAs(index)} /\ SavedAs(index) \in saved
              /\ devnum > 0 /\ raw_image = "ok"
        /\ (returned # "none" /\ devnum = 0) =>
              returned = "False" /\ camLog = <<>> /\ wrote = {}
        /\ (returned # "none" /\ raw_image \in {"None", "incomplete"}) =>
              returned = "False" /\ wrote = {}
        /\ (returned \in {"True", "False"} /\ DeviceOpened) =>
              /\ Len(camLog) >= 3
              /\ camLog[Len(camLog) - 1] = "stream_off"
              /\ camLog[Len(camLog)] = "close_device"
              /\ \A k \in 1..Len(camLog) - 2 :
                    camLog[k] \notin {"stream_off", "close_device"}

\* C13 witness: frame 40 was saved by the first call, and the second call,
\* for index 1000, got an incomplete frame and returned False
C13_Witness ==
    /\ prog = "capture" /\ calls = 2 /\ index = 1000
    /\ saved = {<<"Img_", "0", "4", "0", ".jpg">>}
    /\ raw_image = "incomplete" /\ returned = "False"
    /\ camLog = <<"open_device", "stream_on", "stream_off", "close_device">>

\* the QR text consists of exactly two parts separated by one '_'
TwoParts(t) == Cardinality({k \in 1..Len(t) : t[k] = "_"}) = 1

\* the dated folder of a two-part text <name>_<spec>: <yymmdd>_<spec>_<name>
DatedFolderName(t) ==
    LET k == CHOOSE k \in 1..Len(t) : t[k] = "_"
    IN <<today, "_">> \o SubSeq(t, k + 1, Len(t)) \o <<"_">> \o SubSeq(t, 1, k - 1)

\* C14: process_qr_image returns a folder only if the QR code was decoded
\* and the dated folder <yymmdd>_<spec>_<name> was made, with the image moved
\* into it as <folder name>_QR_code.jpg; when it returns None the image is
\* where it was, and no folder was made if decoding failed or the text has
\* not exactly two parts.
C14_ProcessQrImage ==
    prog = "qr" =>
        /\ qrResult = "folder" =>
              /\ qr_content.found /\ TwoParts(qr_content.text)
              /\ qrFolder = BASE_FOLDER \o <<"/">> \o DatedFolderName(qr_content.text)
              /\ qrFolder \in dirs
              /\ image_path = qrFolder \o <<"/">> \o DatedFolderName(qr_content.text)
                                 \o <<"_QR_code.jpg">>
        /\ qrResult = "None" =>
              /\ image_path = TempQrImage
              /\ (~qr_content.found \/ ~TwoParts(qr_content.text)) => dirs = {}
        /\ (pc = "qr_returned" /\ (~qr_content.found \/ ~TwoParts(qr_content.text)))
              => qrResult = "None"

\* C14 witness: the code 'plantA_specB' was read on 18 September 2025
C14_Witness ==
    /\ prog = "qr" /\ qrResult = "folder"
    /\ qr_content.text = <<"plantA", "_", "specB">>
    /\ image_path = <<"Fotogram_source_data", "/",
                      "250918", "_", "specB", "_", "plantA", "/",
                      "250918", "_", "specB", "_", "plantA", "_QR_code.jpg">>

\* C15: in step 6 the images of a pose are captured only after the robot
\* acknowledged that pose's 'Move J [*]' command with a line starting with
\* 'A'; a call that ran into the timeout is followed by no capture and by
\* the next command.
C15_HandshakeBeforeCapture ==
    (prog = "handshake" /\ progName = "P_POSES_ONLY") =>
        /\ \A k \in 1..Len(callLog) :
              /\ callLog[k].captured =>
                    /\ StartsWith(program[callLog[k].idx], MoveJ)
                    /\ callLog[k].kind = "line"
                    /\ callLog[k].of = callLog[k].idx
                    /\ robotAt >= callLog[k].idx
              /\ callLog[k].kind = "None" =>
                    ~callLog[k].captured /\ cmdIdx > callLog[k].idx
        /\ img_index =
              1 + IMG_AMOUNT * Cardinality({k \in 1..Len(callLog) : callLog[k].captured})

\* the lines of a call that start with 'A' once stripped
AckPositions(lines) ==
    {j \in 1..Len(lines) : StartsWith(StripLine(lines[j]), <<"A">>)}

\* C16: send_command_wait_for_response, for a command that is not 'Wait
\* Time', writes exactly once and returns the first line read that starts
\* with 'A'; the other lines are dropped and never returned; it returns None
\* when no such line was read before the timeout; for 'Wait Time' it reads
\* nothing and returns '[Waiting finished]'.
C16_SendCommandWaitForResponse ==
    (prog = "handshake" /\ callLog # <<>>) =>
        /\ pc = "hs_read" => lastResponse.kind = "running" /\ AckPositions(reads) = {}
        /\ pc # "hs_read" =>
              LET call == callLog[Len(callLog)]
              IN IF StartsWith(program[call.idx], WaitTime)
                 THEN /\ lastResponse = Returned("waited", <<"[Waiting finished]">>)
                      /\ reads = <<>>
                      /\ call.writes = 0
                 ELSE /\ call.writes = 1
                      /\ lastResponse.kind \in {"line", "None"}
                      /\ lastResponse.kind = "line" =>
                            /\ AckPositions(reads) = {Len(reads)}
                            /\ lastResponse.text = StripLine(reads[Len(reads)])
                      /\ lastResponse.kind = "None" =>
                            /\ AckPositions(reads) = {}
                            /\ reads # <<>>
                            /\ lastResponse.text = <<>>
        /\ Len(written) =
              Cardinality({k \in 1..Len(callLog) : callLog[k].writes = 1})
              + (IF pc = "hs_read" THEN 1 ELSE 0)

\* a call returned the line starting with 'A', stripped, after it dropped a
\* non-empty line that does not start with 'A', and a 'Wait Time' call
\* returned before
C16_Witness ==
    /\ prog = "handshake" /\ pc = "hs_cmd"
    /\ lastResponse.kind = "line"
    /\ Len(reads) = 2
    /\ StripLine(reads[1]) # <<>>
    /\ lastResponse.text # reads[2]
    /\ \E k \in 1..Len(callLog) : callLog[k].kind = "waited"
\* the claim's test of one vertex, in the chunk's coordinate system
InCylinder(vid) ==
    LET geo == mulp(VertexCoord[vid])
    IN (geo[1] - Config.CENTER_X) * (geo[1] - Config.CENTER_X)
         + (geo[2] - Config.CENTER_Y) * (geo[2] - Config.CENTER_Y)
            <= Config.RADIUS * Config.RADIUS
       /\ Config.Z_MIN <= geo[3] /\ geo[3] <= Config.Z_MAX

\* the faces the claim has marked selected
MarkedSelected(faces) ==
    {f \in faces :
        /\ \A i \in DOMAIN FaceVertices[f] : InCylinder(FaceVertices[f][i])
        /\ ~\E i \in DOMAIN FaceVertices[f] :
              mulp(VertexCoord[FaceVertices[f][i]])[3] < Config.Z_LIM}

Places(cmd) == {i \in 1..Len(devLog) : devLog[i] = cmd}

\* every cmd2 of the log comes after a cmd1 and after every cmd1
Precedes(cmd1, cmd2) ==
    Places(cmd2) # {} =>
        /\ Places(cmd1) # {}
        /\ \A i \in Places(cmd1), j \in Places(cmd2) : i < j

\* C18: once the acquisition was started, AcquisitionStop is executed for
\* Source0 and Source1, then StreamDisable, then the queued buffers of both
\* streams are aborted and drained until none is queued, only then the
\* streams are closed and freed, and the device is disconnected and freed
\* only after both streams were closed.
C18_ShutdownOrder ==
    prog = "acquire" =>
        /\ Precedes("AcquisitionStart:Source0", "AcquisitionStop:Source0")
        /\ Precedes("AcquisitionStart:Source1", "AcquisitionStop:Source1")
        /\ Precedes("AcquisitionStop:Source0", "AcquisitionStop:Source1")
        /\ Precedes("AcquisitionStop:Source1", "StreamDisable")
        /\ \A s \in {"source0", "source1"} :
              /\ Precedes("StreamDisable", "Abort:" \o s)
              /\ Precedes("Abort:" \o s, "Drain:" \o s)
              /\ Places("Drain:" \o s) # {} => queued[s] = 0
              /\ \A t \in {"source0", "source1"} :
                    /\ Precedes("Drain:" \o s, "Close:" \o t)
                    /\ Precedes("Close:" \o s, "Free:" \o t)
              /\ Precedes("Close:" \o s, "Disconnect")
              /\ Precedes("Free:" \o s, "Disconnect")
        /\ Precedes("Disconnect", "Free:device")
        /\ \A cmd \in {"AcquisitionStop:Source0", "AcquisitionStop:Source1",
                       "StreamDisable", "Abort:source0", "Abort:source1",
                       "Drain:source0", "Drain:source1", "Close:source0",
                       "Close:source1", "Free:source0", "Free:source1",
                       "Disconnect", "Free:device"} :
              /\ Cardinality(Places(cmd)) <= 1
              /\ pc = "done" => Places(cmd) # {}

\* the script ran to its end, and buffers were still queued on both streams
\* when the pair loop was left
C18_Witness ==
    /\ prog = "acquire" /\ pc = "done"
    /\ Places("Free:device") = {Len(devLog)}
    /\ held["source0"] > 0 /\ held["source1"] > 0

\* the directories among the first n entries of the listing
RECURSIVE DirCount(_)
DirCount(n) ==
    IF n <= 0 THEN 0
    ELSE DirCount(n - 1) + (IF listing[n].isdir THEN 1 ELSE 0)

\* one save for each directory dealt with, one more after the loop
SavesCounted ==
    prog = "plant3d" =>
        /\ saves = DirCount(folderIdx - 1)
                   + (IF pc \in {"p3d_notify", "done"} THEN 1 ELSE 0)
        /\ notified # "no" => pc = "done" /\ saves = DirCount(Len(listing)) + 1

\* a save is the one at the end of a directory's turn, with its chunk in the
\* document and the row of its cut model last in the metrics file, or the
\* final one, before any notification
SaveStep ==
    saves' # saves =>
        /\ saves' = saves + 1
        /\ \/ /\ pc = "p3d_save"
              /\ listing[folderIdx].isdir
              /\ folderIdx' = folderIdx + 1
              /\ doc[chunkIdx].label = OrigLabel(listing[folderIdx].name)
              /\ HasCutModel(listing[folderIdx].name) =>
                    /\ metrics # <<>>
                    /\ metrics[Len(metrics)][1] = CutChunkLabel(listing[folderIdx].name)
              /\ doc' = doc /\ metrics' = metrics
           \/ /\ pc = "p3d_loop"
              /\ folderIdx > Len(listing)
              /\ notified = "no" /\ notified' = "no"

\* an entry that is no directory is passed over
SkipStep ==
    (pc = "p3d_loop" /\ folderIdx <= Len(listing) /\ ~listing[folderIdx].isdir) =>
        /\ doc' = doc /\ saves' = saves /\ metrics' = metrics
        /\ folderIdx' = folderIdx + 1

\* the notification comes after the final save and ends the script
NotifyStep ==
    notified' # notified =>
        /\ saves = DirCount(Len(listing)) + 1 /\ saves' = saves
        /\ pc' = "done"

\* C19: the project is saved exactly once after each processed source
\* directory, after its chunks were built and its metrics row written, and
\* once more after the loop; an entry that is no directory creates no chunk
\* and causes no save; the notification is posted only after the final save,
\* and a failed or rejected notification raises no exception.
C19_IncrementalSave ==
    /\ []SavesCounted
    /\ [][prog = "plant3d" => SaveStep /\ SkipStep /\ NotifyStep]_vars

\* the script ended after a listing of a directory and a file: two saves,
\* and the notification failed
C19_Witness ==
    /\ prog = "plant3d" /\ pc = "done"
    /\ Len(listing) = 2
    /\ DirCount(2) = 1
    /\ saves = 2
    /\ Len(metrics) >= 2
    /\ notified \in {"raised", "rejected"}

====
